---- MODULE Spec2Model ----
(***************************************************************************)
(* Model of the lohono-db-connect agent path:                              *)
(*   - the MCP tool server (src/src/acl.ts, src/src/tools.ts,              *)
(*     src/src/index-sse.ts),                                              *)
(*   - the agent orchestrator and the session layer                        *)
(*     (src/unnamed/part_002 = client/auth.ts + client/agent.ts,           *)
(*     src/src/client/server.ts, src/src/client/db.ts,                     *)
(*     src/src/client/mcp-bridge.ts).                                      *)
(* The specifications share the variables; each starts the parts it does   *)
(* not use in their idle state.                                            *)
(***************************************************************************)
EXTENDS Integers, Sequences, FiniteSets, TLC

(***************************************************************************)
(* Bounds of the model                                                     *)
(***************************************************************************)
\* number of clock ticks the model lets pass
MaxTicks == 1
\* milliseconds per clock tick
TickMs == 300000
\* SSE connections that can be open at a time
MaxSessions == 2
\* first rounds of a chat in which the LLM answers freely; in later rounds
\* it answers with text and one tool_use, or with the final text
MaxFreeRounds == 1
\* tokens uuidv4() hands out in a run
MaxTokens == 2
\* the round of a chat in which tool calls may fail (rejected callTool, failed
\* staff lookup, throwing tool body); in the other rounds they go through
FaultRound == 0

(***************************************************************************)
(* Values                                                                  *)
(***************************************************************************)
\* JavaScript undefined, for an absent email / header / meta field
Undefined == "undefined"

\* acl.ts:44
CACHE_TTL_MS == 300000

\* ACL tags held by staff records and named by the ACL config
AclTags == {"DB_VIEW", "ADMIN", "OTHER"}

\* names of the tools of the catalog (tools.ts toolDefinitions)
toolDefinitions ==
  {"query", "list_tables", "describe_table", "list_schemas",
   "get_sales_funnel_context", "classify_sales_intent", "get_query_template",
   "list_query_patterns", "analyze_query", "generate_rules",
   "fetch_redash_query", "generate_rules_from_redash"}

\* a tool name that is not in the catalog
UnknownTool == "no_such_tool"

ToolNames == toolDefinitions \cup {UnknownTool}

\* email strings as callers write them (case and blanks included)
EmailStrings == {"a@x", " A@X ", "b@x", "c@x", "", " "}

\* String.prototype.trim on the email strings of the model
Trim(s) ==
  CASE s = " A@X " -> "A@X"
    [] s = " a@x " -> "a@x"
    [] s = " " -> ""
    [] OTHER -> s

\* String.prototype.toLowerCase on the email strings of the model
ToLowerCase(s) ==
  CASE s = " A@X " -> " a@x "
    [] s = "A@X" -> "a@x"
    [] OTHER -> s

\* JavaScript truthiness of an optional string
Truthy(s) == s # Undefined /\ s # ""

\* the keys of the staff store and of the ACL cache
NormEmails == {"a@x", "b@x", "c@x", ""}

(***************************************************************************)
(* ACL config (acl.ts loadAclConfig)                                       *)
(***************************************************************************)
\* the ACL config file is absent
NoFile == [exists |-> FALSE, default_policy |-> Undefined, superuser_acls |-> {},
           public_tools |-> {}, tool_acls |-> << >>]

\* the (public_tools, tool_acls) pairs the model draws from
ToolRules ==
  { [public_tools |-> {}, tool_acls |-> << >>],
    [public_tools |-> {"list_schemas", "query"},
     tool_acls |-> [t \in {"query", "list_tables"} |-> {"DB_VIEW"}]],
    [public_tools |-> {},
     tool_acls |-> [t \in {"query", "list_tables"} |->
                      IF t = "query" THEN {"DB_VIEW", "OTHER"} ELSE {}]] }

\* parsed YAML documents the model draws from
RawConfigs ==
  {NoFile} \cup
  { [exists |-> TRUE, default_policy |-> p, superuser_acls |-> s,
     public_tools |-> r.public_tools, tool_acls |-> r.tool_acls] :
       p \in {Undefined, "open", "deny"}, s \in {{}, {"ADMIN"}}, r \in ToolRules }

\* loadAclConfig: the effective config for a raw document
loadAclConfig(raw) ==
  IF ~raw.exists
    THEN [default_policy |-> "open", superuser_acls |-> {}, public_tools |-> {},
          tool_acls |-> << >>]
    ELSE [default_policy |->
            IF Truthy(raw.default_policy) THEN raw.default_policy ELSE "deny",
          superuser_acls |-> raw.superuser_acls,
          public_tools |-> raw.public_tools,
          tool_acls |-> raw.tool_acls]

(***************************************************************************)
(* Staff store and ACL cache (acl.ts resolveUserAcls)                      *)
(***************************************************************************)
\* no row of public.staffs matches
NoRow == [found |-> FALSE, acl_null |-> FALSE, acl_array |-> {}, active |-> "null"]

\* rows of public.staffs the model draws from
StaffRows ==
  {NoRow} \cup
  [found : {TRUE}, acl_null : {FALSE}, acl_array : {{"DB_VIEW"}, {"ADMIN"}},
   active : {"true", "false"}] \cup
  {[found |-> TRUE, acl_null |-> TRUE, acl_array |-> {}, active |-> "true"],
   [found |-> TRUE, acl_null |-> FALSE, acl_array |-> {"ADMIN"}, active |-> "null"]}

\* resolveUserAcls returned null
NoUser == [found |-> FALSE, acls |-> {}, active |-> FALSE]

\* an empty slot of the cache
NoEntry == [has |-> FALSE, acls |-> {}, active |-> FALSE, fetched_at |-> 0]

EmptyCache == [e \in NormEmails |-> NoEntry]

\* acl.ts:104
NormalizeEmail(email) == Trim(ToLowerCase(email))

\* acl.ts:107-110: a fresh cache entry answers the lookup
CacheHit(cache, email, t) ==
  LET c == cache[NormalizeEmail(email)] IN
    c.has /\ t - c.fetched_at < CACHE_TTL_MS

\* acl.ts:126-128: row -> {acls, active}
UserOfRow(row) ==
  [found |-> TRUE,
   acls |-> IF row.acl_null THEN {} ELSE row.acl_array,
   active |-> row.active = "true"]

\* resolveUserAcls with the null of a missing record cached as well
resolveUserAcls_cachesMisses(cache, store, t, email, dbOk) ==
  LET n == NormalizeEmail(email) IN
    IF CacheHit(cache, email, t)
      THEN [user |-> [found |-> TRUE, acls |-> cache[n].acls, active |-> cache[n].active],
            cache |-> cache]
    ELSE IF ~dbOk
      THEN [user |-> NoUser, cache |-> cache]
    ELSE IF ~store[n].found
      THEN [user |-> NoUser,
            cache |-> [cache EXCEPT ![n] =
                         [has |-> TRUE, acls |-> {}, active |-> FALSE, fetched_at |-> t]]]
    ELSE LET u == UserOfRow(store[n]) IN
      [user |-> u,
       cache |-> [cache EXCEPT ![n] =
                    [has |-> TRUE, acls |-> u.acls, active |-> u.active, fetched_at |-> t]]]

\* resolveUserAcls run to completion at time t: [user, cache]
\* dbOk = FALSE: BEGIN, the SELECT or COMMIT threw
resolveUserAcls(cache, store, t, email, dbOk) ==
  LET n == NormalizeEmail(email) IN
    IF CacheHit(cache, email, t)
      THEN [user |-> [found |-> TRUE, acls |-> cache[n].acls, active |-> cache[n].active],
            cache |-> cache]
    ELSE IF ~dbOk \/ ~store[n].found
      THEN [user |-> NoUser, cache |-> cache]
    ELSE LET u == UserOfRow(store[n]) IN
      [user |-> u,
       cache |-> [cache EXCEPT ![n] =
                    [has |-> TRUE, acls |-> u.acls, active |-> u.active, fetched_at |-> t]]]

(***************************************************************************)
(* Access decision (acl.ts checkToolAccess, filterToolsByAccess)           *)
(***************************************************************************)
\* checkToolAccess consults the staff store for this call (acl.ts:156-170)
NeedsLookup(config, toolName, userEmail) ==
  toolName \notin config.public_tools /\ Truthy(userEmail)

\* checkToolAccess with the superuser test moved ahead of the active test
checkToolAccess_superuserFirst(config, toolName, userEmail, user) ==
  IF toolName \in config.public_tools
    THEN [allowed |-> TRUE, reason |-> <<"Public tool">>]
  ELSE IF ~Truthy(userEmail)
    THEN [allowed |-> FALSE, reason |-> <<"Authentication required">>]
  ELSE IF ~user.found
    THEN [allowed |-> FALSE, reason |-> <<"User not found: ", userEmail>>]
  ELSE IF user.acls \cap config.superuser_acls # {}
    THEN [allowed |-> TRUE, reason |-> <<"Superuser access">>]
  ELSE IF ~user.active
    THEN [allowed |-> FALSE, reason |-> <<"User account is deactivated: ", userEmail>>]
  ELSE IF toolName \notin DOMAIN config.tool_acls
    THEN [allowed |-> config.default_policy = "open", reason |-> <<"Default policy">>]
  ELSE [allowed |-> config.tool_acls[toolName] \cap user.acls # {},
        reason |-> <<"ACL">>]

\* checkToolAccess given the outcome `user` of resolveUserAcls (acl.ts:148-239)
checkToolAccess(config, toolName, userEmail, user) ==
  IF toolName \in config.public_tools
    THEN [allowed |-> TRUE, reason |-> <<"Public tool">>]
  ELSE IF ~Truthy(userEmail)
    THEN [allowed |-> FALSE, reason |-> <<"Authentication required">>]
  ELSE IF ~user.found
    THEN [allowed |-> FALSE, reason |-> <<"User not found: ", userEmail>>]
  ELSE IF ~user.active
    THEN [allowed |-> FALSE, reason |-> <<"User account is deactivated: ", userEmail>>]
  ELSE IF user.acls \cap config.superuser_acls # {}
    THEN [allowed |-> TRUE, reason |-> <<"Superuser access">>]
  ELSE IF toolName \notin DOMAIN config.tool_acls
    THEN IF config.default_policy = "open"
           THEN [allowed |-> TRUE, reason |-> <<"Default policy: open">>]
           ELSE [allowed |-> FALSE,
                 reason |-> <<"Access denied: tool ", toolName, " is not configured">>]
  ELSE IF config.tool_acls[toolName] \cap user.acls # {}
    THEN [allowed |-> TRUE, reason |-> <<"ACL matched">>]
  ELSE [allowed |-> FALSE,
        reason |-> <<"Access denied: tool ", toolName, " requires one of ",
                     config.tool_acls[toolName], " User has: ", user.acls>>]

\* filterToolsByAccess without the test of the active flag
filterToolsByAccess_ignoresActive(config, tools, userEmail, user) ==
  IF ~Truthy(userEmail) \/ ~user.found
    THEN {t \in tools : t \in config.public_tools}
  ELSE IF user.acls \cap config.superuser_acls # {}
    THEN tools
  ELSE {t \in tools :
          \/ t \in config.public_tools
          \/ IF t \notin DOMAIN config.tool_acls
               THEN config.default_policy = "open"
               ELSE config.tool_acls[t] \cap user.acls # {}}

\* filterToolsByAccess given the outcome `user` of resolveUserAcls (acl.ts:247-279)
filterToolsByAccess(config, tools, userEmail, user) ==
  IF ~Truthy(userEmail)
    THEN {t \in tools : t \in config.public_tools}
  ELSE IF ~user.found \/ ~user.active
    THEN {t \in tools : t \in config.public_tools}
  ELSE IF user.acls \cap config.superuser_acls # {}
    THEN tools
  ELSE {t \in tools :
          \/ t \in config.public_tools
          \/ IF t \notin DOMAIN config.tool_acls
               THEN config.default_policy = "open"
               ELSE config.tool_acls[t] \cap user.acls # {}}

\* resolveUserEmail (acl.ts:286-306); meta is meta.user_email or Undefined
resolveUserEmail(meta, sessionEmail, env) ==
  IF meta # Undefined /\ Trim(meta) # ""
    THEN Trim(meta)
  ELSE IF Truthy(sessionEmail)
    THEN sessionEmail
  ELSE IF Truthy(env)
    THEN Trim(env)
  ELSE Undefined

(***************************************************************************)
(* Tool inputs and results (tools.ts)                                      *)
(***************************************************************************)
\* rows of table t when the server starts
InitRows == 2

\* SQL text is a sequence of statements, each of one of these kinds
\*   SELECT: reads; DELETE: "DELETE FROM t"; COMMIT: ends the transaction
SqlTexts ==
  {<<"SELECT">>, <<"DELETE">>, <<"COMMIT", "DELETE">>, <<"SELECT", "SELECT">>}

\* the statement kind changes data
Mutating(stmt) == stmt = "DELETE"

\* arguments of a tool call: isObject = FALSE is `undefined`; has = the
\* fields present; sql / query_ids = the text as a sequence (<< >> is "");
\* params = TRUE when a non-empty params array is present
NoArgs == [isObject |-> FALSE, has |-> {}, sql |-> << >>, params |-> FALSE,
           query_ids |-> << >>]

EmptyObject == [NoArgs EXCEPT !.isObject = TRUE]

SqlArgs(text, withParams) ==
  [isObject |-> TRUE, has |-> IF withParams THEN {"sql", "params"} ELSE {"sql"},
   sql |-> text, params |-> withParams, query_ids |-> << >>]

IdArgs(ids) ==
  [isObject |-> TRUE, has |-> {"query_ids"}, sql |-> << >>, params |-> FALSE,
   query_ids |-> ids]

FieldArgs(fields) == [EmptyObject EXCEPT !.has = fields]

\* argument values the model draws from
ArgSamples ==
  {NoArgs, EmptyObject, SqlArgs(<< >>, FALSE),
   SqlArgs(<<"COMMIT", "DELETE">>, TRUE),
   IdArgs(<<"42">>), IdArgs(<<"42", "x">>),
   FieldArgs({"table_name", "pattern_name", "question"})}
  \cup {SqlArgs(t, FALSE) : t \in SqlTexts}

\* tools.ts:28-70: the fields each Zod schema requires (min(1) strings)
RequiredFields(name) ==
  CASE name = "query" -> {"sql"}
    [] name = "describe_table" -> {"table_name"}
    [] name = "list_tables" -> {}
    [] name = "classify_sales_intent" -> {"question"}
    [] name = "get_query_template" -> {"pattern_name"}
    [] name = "analyze_query" -> {"sql"}
    [] name = "generate_rules" -> {"sql", "pattern_name", "description", "category"}
    [] name = "fetch_redash_query" -> {"query_ids"}
    [] name = "generate_rules_from_redash" -> {"query_ids"}
    [] OTHER -> {}

\* the handlers that parse their arguments with a schema
HasSchema(name) ==
  name \in toolDefinitions \ {"list_schemas", "get_sales_funnel_context",
                             "list_query_patterns"}

\* the handlers that run SQL through executeReadOnlyQuery
DbTools == {"query", "list_tables", "describe_table", "list_schemas"}

\* the handlers that call the BI platform
BiTools == {"fetch_redash_query", "generate_rules_from_redash"}

\* <Schema>.parse(args) succeeds
SchemaParse(name, args) ==
  /\ args.isObject
  /\ \A f \in RequiredFields(name) :
       /\ f \in args.has
       /\ f = "sql" => args.sql # << >>
       /\ f = "query_ids" => args.query_ids # << >>

\* redash-client.ts:109-119 parseQueryIds: throws on a non-numeric token
parseQueryIdsThrows(ids) == \E i \in 1..Len(ids) : ids[i] \notin {"42", "99"}

\* result objects of handleToolCall
NoResult == [isError |-> FALSE, text |-> << >>]
Success(kind) == [isError |-> FALSE, text |-> <<kind>>]
ErrorResult(message) == [isError |-> TRUE, text |-> <<"Error: ", message>>]
ValidationResult == [isError |-> TRUE, text |-> <<"Validation error: ", "issues">>]
\* tools.ts:317-326
DeniedResult(reason) == [isError |-> TRUE, text |-> <<"Access denied: ">> \o reason]

(***************************************************************************)
(* The relational engine behind client.query (tools.ts:74-87)              *)
(***************************************************************************)
\* one statement on a connection whose transaction state is txn
\*   txn: "none" (autocommit), "ro" (read-only block), "aborted"
EngineStep(st, stmt) ==
  IF ~st.ok THEN st
  ELSE IF stmt = "COMMIT" THEN [st EXCEPT !.txn = "none"]
  ELSE IF st.txn = "aborted" THEN [st EXCEPT !.ok = FALSE]
  ELSE IF Mutating(stmt)
    THEN IF st.txn = "ro"
           THEN [st EXCEPT !.ok = FALSE, !.txn = "aborted"]
           ELSE [st EXCEPT !.rows = 0]
  ELSE st

RECURSIVE EngineRun(_, _)
EngineRun(st, text) ==
  IF text = << >> THEN st ELSE EngineRun(EngineStep(st, Head(text)), Tail(text))

\* client.query(sql, params): without parameter values the text goes out as
\* one simple-protocol message and may hold several statements; with values
\* it is prepared, and a text of several statements is refused
ClientQuery(txn, rows, text, withParams) ==
  IF withParams /\ Len(text) > 1
    THEN [txn |-> IF txn = "none" THEN "none" ELSE "aborted", rows |-> rows, ok |-> FALSE]
    ELSE EngineRun([txn |-> txn, rows |-> rows, ok |-> TRUE], text)

(***************************************************************************)
(* State                                                                   *)
(***************************************************************************)
VARIABLES
  aclFile,     \* the parsed ACL config document on disk (or NoFile)
  aclConfig,   \* acl.ts:52 the loaded config
  staffs,      \* public.staffs, keyed by LOWER(email)
  userCache,   \* acl.ts:53
  ticks,       \* the clock, in ticks of TickMs
  aclOut,      \* outcome of the last checkToolAccess / filterToolsByAccess call
  dbRows,      \* the relational store: number of rows of table t
  poolOut,     \* tools.ts:18 pool: connections checked out
  call,        \* the handleToolCall invocation in progress (or the last one)
  sessionEmails, \* index-sse.ts:33 Map<transport, email>, in insertion order
  sseOpen,     \* the SSE connections: open flag and X-User-Email header of each
  envEmail,    \* process.env.MCP_USER_EMAIL
  req,         \* the last list_tools / call_tool request the SSE server handled
  authSessions, \* the auth_sessions collection (client/auth.ts)
  session,     \* the conversation session: owner, title, updatedAt (client/db.ts)
  messages,    \* the messages of the conversation session, in stored order
  chat,        \* the chat invocation in progress (client/agent.ts)
  otherSessions, \* the conversation sessions made by POST /api/sessions
  logins,      \* the authenticateGoogleUser invocations in progress
  tokenCtr,    \* number of uuidv4() tokens drawn so far
  loggedOut,   \* tokens of the logouts that completed (history)
  api,         \* the last request answered by the HTTP API, and its response
  chatB,       \* a second chat invocation on the session, while the other runs
  writes,      \* the sessions.updateOne calls issued and not yet applied
  lookups,     \* the resolveUserAcls invocations in progress
  staffChangedAt \* the time of the last change of a staff row (history)

aclVars == <<aclFile, aclConfig, staffs, userCache, ticks, aclOut>>
callVars == <<dbRows, poolOut, call>>
sseVars == <<sessionEmails, sseOpen, envEmail, req>>
toolVars == <<callVars, sseVars>>
chatVars == <<authSessions, session, messages, chat>>
apiVars == <<otherSessions, logins, tokenCtr, loggedOut, api>>
concVars == <<chatB, writes, lookups, staffChangedAt>>
vars == <<aclVars, toolVars, chatVars, apiVars, concVars>>

\* Date.now()
now == ticks * TickMs

\* caller emails the model draws from
EmailInputs == {Undefined} \cup EmailStrings

\* outcomes of the staff query: it answers, BEGIN/SELECT/COMMIT throws,
\* or pool.connect() itself throws
DbOutcomes == {"ok", "fail", "noconn"}

\* staff rows of the concrete scenario of the ACL documentation
ScenarioStaffs ==
  [e \in NormEmails |->
     CASE e = "a@x" -> [found |-> TRUE, acl_null |-> FALSE, acl_array |-> {"DB_VIEW"},
                        active |-> "true"]
       [] e = "b@x" -> [found |-> TRUE, acl_null |-> FALSE, acl_array |-> {"OTHER"},
                        active |-> "true"]
       [] OTHER -> NoRow]

\* the SSE transports (connections) the model opens
Transports == 1..MaxSessions

\* no request handled yet
NoReq == [kind |-> "none", session |-> 0, meta |-> Undefined, header |-> Undefined,
          userEmail |-> Undefined, tools |-> {}]

\* no SSE connection open
NoSessions == [t \in Transports |-> [open |-> FALSE, header |-> Undefined]]

\* the SSE server takes no part (stdio transport, or a direct call)
SseUnused ==
  /\ sessionEmails = << >>
  /\ sseOpen = NoSessions
  /\ envEmail = Undefined
  /\ req = NoReq

\* agent.ts (part_002:185)
MAX_TOOL_ROUNDS == 20

\* no chat invocation has started (held: the number of messages the session
\* held when the invocation began)
IdleChat ==
  [pc |-> "idle", user |-> Undefined, userLen |-> 0, dbLen |-> 0, round |-> 0,
   resp |-> [text |-> FALSE, tools |-> 0, stop |-> "end_turn"], i |-> 0,
   nextId |-> 1, ids |-> << >>, llmCalls |-> 0, finalText |-> FALSE,
   toolCalls |-> 0, resultText |-> "", threw |-> {}, aclEmails |-> {}, http |-> 0,
   held |-> 0]

\* the default title of createSession (db.ts:74)
NewTitle == [custom |-> FALSE, len |-> 0, ellipsis |-> FALSE]

\* the orchestrator takes no part
ChatUnused ==
  /\ authSessions = {}
  /\ session = [owner |-> Undefined, title |-> NewTitle, updatedAt |-> 0]
  /\ messages = << >>
  /\ chat = IdleChat

\* no request answered yet
NoApi == [route |-> "none", token |-> Undefined, status |-> 0, user |-> Undefined,
          handled |-> FALSE]

\* the HTTP API takes no part
ApiUnused ==
  /\ otherSessions = {}
  /\ logins = << >>
  /\ tokenCtr = 0
  /\ loggedOut = {}
  /\ api = NoApi

\* no second chat invocation, no write and no staff lookup in progress
ConcUnused ==
  /\ chatB = IdleChat
  /\ writes = << >>
  /\ lookups = << >>
  /\ staffChangedAt = 0

\* no handleToolCall invocation has started
IdleCall ==
  [pc |-> "idle", name |-> Undefined, args |-> NoArgs, userEmail |-> Undefined,
   denied |-> FALSE, parsed |-> FALSE, sql |-> << >>, params |-> FALSE,
   conn |-> FALSE, txn |-> "none", failed |-> FALSE, trace |-> << >>,
   bi |-> 0, nonSuccess |-> FALSE, result |-> NoResult, rowsBefore |-> 0]

(***************************************************************************)
(* SpecAcl: access decisions over configs, staff rows, cache and clock     *)
(***************************************************************************)
\* tool names the access calls of SpecAcl are made with
AclProbeTools == {"query", "list_tables", "list_schemas", UnknownTool}

\* caller emails the access calls of SpecAcl are made with
AclProbeEmails == {Undefined, "", "a@x", " A@X ", "b@x", "c@x"}

NoOut == [kind |-> "none", threw |-> FALSE, allowed |-> FALSE, tools |-> {}]

InitAcl ==
  /\ aclFile \in RawConfigs
  /\ aclConfig = loadAclConfig(aclFile)
  /\ \E row \in StaffRows : staffs = [ScenarioStaffs EXCEPT !["a@x"] = row]
  /\ userCache = EmptyCache
  /\ ticks = 0
  /\ aclOut = NoOut
  /\ dbRows = InitRows
  /\ poolOut = 0
  /\ call = IdleCall
  /\ SseUnused
  /\ ChatUnused
  /\ ApiUnused
  /\ ConcUnused

\* the lookup a call makes: [threw, user, cache]
Lookup(email, db) ==
  IF CacheHit(userCache, email, now)
    THEN [threw |-> FALSE] @@ resolveUserAcls(userCache, staffs, now, email, TRUE)
  ELSE IF db = "noconn"
    THEN [threw |-> TRUE, user |-> NoUser, cache |-> userCache]
  ELSE [threw |-> FALSE] @@ resolveUserAcls(userCache, staffs, now, email, db = "ok")

NoLookup == [threw |-> FALSE, user |-> NoUser, cache |-> userCache]

\* checkToolAccess(toolName, userEmail, pool) in the current state:
\* [threw, allowed, reason, cache]
CheckNow(toolName, userEmail, db) ==
  LET l == IF NeedsLookup(aclConfig, toolName, userEmail)
             THEN Lookup(userEmail, db) ELSE NoLookup
      r == checkToolAccess(aclConfig, toolName, userEmail, l.user)
  IN [threw |-> l.threw, cache |-> l.cache,
      allowed |-> IF l.threw THEN FALSE ELSE r.allowed,
      reason |-> IF l.threw THEN << >> ELSE r.reason]

\* filterToolsByAccess(toolDefinitions, userEmail, pool) in the current state:
\* [threw, tools, cache]
FilterNow(userEmail, db) ==
  LET l == IF Truthy(userEmail) THEN Lookup(userEmail, db) ELSE NoLookup
  IN [threw |-> l.threw, cache |-> l.cache,
      tools |-> IF l.threw THEN {}
                ELSE filterToolsByAccess(aclConfig, toolDefinitions, userEmail, l.user)]

\* one call of checkToolAccess
AclCheck(toolName, userEmail, db) ==
  LET c == CheckNow(toolName, userEmail, db) IN
     /\ userCache' = c.cache
     /\ aclOut' = [kind |-> "check", threw |-> c.threw, allowed |-> c.allowed,
                   tools |-> {}]
     /\ UNCHANGED <<concVars, aclFile, aclConfig, staffs, ticks, toolVars, chatVars, apiVars>>

\* one call of filterToolsByAccess
AclFilter(userEmail, db) ==
  LET f == FilterNow(userEmail, db) IN
     /\ userCache' = f.cache
     /\ aclOut' = [kind |-> "filter", threw |-> f.threw, allowed |-> FALSE,
                   tools |-> f.tools]
     /\ UNCHANGED <<concVars, aclFile, aclConfig, staffs, ticks, toolVars, chatVars, apiVars>>

\* time passes
Tick ==
  /\ ticks < MaxTicks
  /\ ticks' = ticks + 1
  /\ UNCHANGED <<concVars, aclFile, aclConfig, staffs, userCache, aclOut, toolVars, chatVars, apiVars>>

\* acl.ts:311-313
clearAclCache ==
  /\ userCache' = EmptyCache
  /\ UNCHANGED <<concVars, aclFile, aclConfig, staffs, ticks, aclOut, toolVars, chatVars, apiVars>>

NextAcl ==
  \/ \E t \in AclProbeTools, e \in AclProbeEmails, db \in DbOutcomes : AclCheck(t, e, db)
  \/ \E e \in AclProbeEmails, db \in DbOutcomes : AclFilter(e, db)
  \/ Tick
  \/ clearAclCache

SpecAcl == InitAcl /\ [][NextAcl]_vars

(***************************************************************************)
(* handleToolCall (tools.ts:308-560) and executeReadOnlyQuery (74-87)      *)
(***************************************************************************)
\* the invocation returns `result`
Finish(c, result) ==
  [c EXCEPT !.pc = "done", !.result = result,
            !.nonSuccess = c.nonSuccess \/ result.isError]

\* handleToolCall(name, args, userEmail) is invoked
handleToolCall(name, args, userEmail) ==
  /\ call.pc = "idle"
  /\ call' = [IdleCall EXCEPT !.pc = "acl", !.name = name, !.args = args,
                              !.userEmail = userEmail, !.rowsBefore = dbRows]
  /\ UNCHANGED <<concVars, aclVars, dbRows, poolOut, sseVars, chatVars, apiVars>>

\* tools.ts:314-326 with the schema parsed ahead of the ACL verdict
AclGate_parsesFirst(db) ==
  /\ call.pc = "acl"
  /\ LET c == CheckNow(call.name, call.userEmail, db)
         p == [call EXCEPT !.parsed = HasSchema(call.name)]
     IN /\ userCache' = c.cache
        /\ call' = IF c.threw THEN Finish(p, ErrorResult("connect"))
                   ELSE IF ~c.allowed
                     THEN Finish([p EXCEPT !.denied = TRUE], DeniedResult(c.reason))
                   ELSE [p EXCEPT !.pc = "dispatch"]
  /\ UNCHANGED <<concVars, aclFile, aclConfig, staffs, ticks, aclOut, dbRows, poolOut, sseVars, chatVars, apiVars>>

\* tools.ts:314-326: the ACL check and the denial result
AclGate(db) ==
  /\ call.pc = "acl"
  /\ LET c == CheckNow(call.name, call.userEmail, db) IN
       /\ userCache' = c.cache
       /\ call' = IF c.threw THEN Finish(call, ErrorResult("connect"))
                  ELSE IF ~c.allowed
                    THEN Finish([call EXCEPT !.denied = TRUE], DeniedResult(c.reason))
                  ELSE [call EXCEPT !.pc = "dispatch"]
  /\ UNCHANGED <<concVars, aclFile, aclConfig, staffs, ticks, aclOut, dbRows, poolOut, sseVars, chatVars, apiVars>>

\* tools.ts:330-540: the branch of the tool is taken and its schema parsed
Dispatch ==
  /\ call.pc = "dispatch"
  /\ LET n == call.name
         c == [call EXCEPT !.parsed = HasSchema(n)]
     IN call' =
          IF n \notin toolDefinitions THEN Finish(call, ErrorResult("Unknown tool"))
          ELSE IF HasSchema(n) /\ ~SchemaParse(n, call.args)
            THEN Finish(c, ValidationResult)
          ELSE IF n \in DbTools
            THEN [c EXCEPT !.pc = "connect",
                           !.sql = IF n = "query" THEN call.args.sql ELSE <<"SELECT">>,
                           !.params = IF n = "query" THEN call.args.params
                                      ELSE n \in {"list_tables", "describe_table"}]
          ELSE [c EXCEPT !.pc = "body"]
  /\ UNCHANGED <<concVars, aclVars, dbRows, poolOut, sseVars, chatVars, apiVars>>

\* tools.ts:75 pool.connect()
Connect(ok) ==
  /\ call.pc = "connect"
  /\ IF ok
       THEN /\ poolOut' = poolOut + 1
            /\ call' = [call EXCEPT !.pc = "begin", !.conn = TRUE,
                                    !.trace = Append(@, "connect")]
       ELSE /\ poolOut' = poolOut
            /\ call' = Finish([call EXCEPT !.trace = Append(@, "connect!")],
                              ErrorResult("connect"))
  /\ UNCHANGED <<concVars, aclVars, dbRows, sseVars, chatVars, apiVars>>

\* tools.ts:77 BEGIN TRANSACTION READ ONLY
Begin(ok) ==
  /\ call.pc = "begin"
  /\ call' = IF ok
               THEN [call EXCEPT !.pc = "exec", !.txn = "ro", !.trace = Append(@, "BEGIN")]
               ELSE [call EXCEPT !.pc = "rollback", !.trace = Append(@, "BEGIN!")]
  /\ UNCHANGED <<concVars, aclVars, dbRows, poolOut, sseVars, chatVars, apiVars>>

\* tools.ts:78 client.query(sql, params); backendOk = FALSE: the engine
\* fails the text for a reason of its own (missing table, timeout)
Exec(backendOk) ==
  /\ call.pc = "exec"
  /\ LET r == IF backendOk
                THEN ClientQuery(call.txn, dbRows, call.sql, call.params)
                ELSE [txn |-> "aborted", rows |-> dbRows, ok |-> FALSE]
     IN /\ dbRows' = r.rows
        /\ call' = IF r.ok
                     THEN [call EXCEPT !.pc = "commit", !.txn = r.txn,
                                       !.trace = Append(@, "stmt")]
                     ELSE [call EXCEPT !.pc = "rollback", !.txn = r.txn,
                                       !.trace = Append(@, "stmt!")]
  /\ UNCHANGED <<concVars, aclVars, poolOut, sseVars, chatVars, apiVars>>

\* tools.ts:79 COMMIT
Commit(ok) ==
  /\ call.pc = "commit"
  /\ call' = IF ok
               THEN [call EXCEPT !.pc = "release", !.txn = "none",
                                 !.trace = Append(@, "COMMIT")]
               ELSE [call EXCEPT !.pc = "rollback", !.trace = Append(@, "COMMIT!")]
  /\ UNCHANGED <<concVars, aclVars, dbRows, poolOut, sseVars, chatVars, apiVars>>

\* tools.ts:81-83 with the release skipped when ROLLBACK itself throws
Rollback_leaksOnThrow(ok) ==
  /\ call.pc = "rollback"
  /\ call' = IF ok
               THEN [call EXCEPT !.pc = "release", !.txn = "none", !.failed = TRUE,
                                 !.trace = Append(@, "ROLLBACK")]
               ELSE Finish([call EXCEPT !.txn = "none", !.failed = TRUE,
                                        !.trace = Append(@, "ROLLBACK!")],
                           ErrorResult("rollback"))
  /\ UNCHANGED <<concVars, aclVars, dbRows, poolOut, sseVars, chatVars, apiVars>>

\* tools.ts:81-83 catch: ROLLBACK, then rethrow (the ROLLBACK may throw too)
Rollback(ok) ==
  /\ call.pc = "rollback"
  /\ call' = [call EXCEPT !.pc = "release", !.txn = "none", !.failed = TRUE,
                          !.trace = Append(@, IF ok THEN "ROLLBACK" ELSE "ROLLBACK!")]
  /\ UNCHANGED <<concVars, aclVars, dbRows, poolOut, sseVars, chatVars, apiVars>>

\* tools.ts:84-86 finally: client.release(); then the handler returns the
\* rows, or the catch of handleToolCall turns the error into a result
Release ==
  /\ call.pc = "release"
  /\ poolOut' = poolOut - 1
  /\ LET c == [call EXCEPT !.conn = FALSE, !.trace = Append(@, "release")] IN
       call' = IF call.failed THEN Finish(c, ErrorResult("sql"))
               ELSE Finish(c, Success("rows"))
  /\ UNCHANGED <<concVars, aclVars, dbRows, sseVars, chatVars, apiVars>>

\* what the body of a tool without SQL can meet
\*   throws: the rules file is missing; not_found: unknown pattern;
\*   no_key: no BI API key; bi_error: the BI platform fails every fetch
BodyOutcomes(name) ==
  CASE name \in {"get_sales_funnel_context", "classify_sales_intent",
                 "list_query_patterns"} -> {"ok", "throws"}
    [] name = "get_query_template" -> {"ok", "throws", "not_found"}
    [] name \in BiTools -> {"ok", "no_key", "bi_error"}
    [] OTHER -> {"ok"}

\* tools.ts:404-540: the bodies of the tools that run no SQL
Body(outcome) ==
  /\ call.pc = "body"
  /\ outcome \in BodyOutcomes(call.name)
  /\ call' =
       IF call.name \in BiTools /\ parseQueryIdsThrows(call.args.query_ids)
         THEN Finish(call, ErrorResult("Invalid query ID"))
       ELSE IF outcome = "throws" THEN Finish(call, ErrorResult("thrown"))
       ELSE IF outcome = "no_key" THEN Finish(call, ErrorResult("Redash API key is required"))
       ELSE IF outcome = "not_found"
         THEN Finish(call, [isError |-> TRUE, text |-> <<"Unknown pattern: ">>])
       ELSE IF outcome = "bi_error"
         THEN Finish([call EXCEPT !.bi = Len(call.args.query_ids), !.nonSuccess = TRUE],
                     Success("json"))
       ELSE Finish([call EXCEPT !.bi = IF call.name \in BiTools
                                         THEN Len(call.args.query_ids) ELSE 0],
                   Success("json"))
  /\ UNCHANGED <<concVars, aclVars, dbRows, poolOut, sseVars, chatVars, apiVars>>

\* the promise of handleToolCall resolves: the caller has the result
Return ==
  /\ call.pc = "done"
  /\ call' = IdleCall
  /\ UNCHANGED <<concVars, aclVars, dbRows, poolOut, sseVars, chatVars, apiVars>>

\* the steps of an invocation of a tool that runs SQL
SqlCallSteps ==
  \/ \E db \in DbOutcomes : AclGate(db)
  \/ Dispatch
  \/ \E ok \in BOOLEAN : Connect(ok)
  \/ \E ok \in BOOLEAN : Begin(ok)
  \/ \E ok \in BOOLEAN : Exec(ok)
  \/ \E ok \in BOOLEAN : Commit(ok)
  \/ \E ok \in BOOLEAN : Rollback(ok)
  \/ Release
  \/ Return

\* the steps of an invocation in progress
CallSteps ==
  \/ SqlCallSteps
  \/ \E o \in {"ok", "throws", "not_found", "no_key", "bi_error"} : Body(o)

(***************************************************************************)
(* SpecTools: handleToolCall over tool names, arguments and callers        *)
(***************************************************************************)
\* the ACL document of the documented scenario
ScenarioConfig ==
  [exists |-> TRUE, default_policy |-> "deny", superuser_acls |-> {"ADMIN"},
   public_tools |-> {}, tool_acls |-> [t \in {"query"} |-> {"DB_VIEW"}]]

\* the ACL documents SpecTools starts from: none, the documented scenario,
\* and an open policy with public tools
ToolConfigs ==
  {NoFile, ScenarioConfig,
   [exists |-> TRUE, default_policy |-> "open", superuser_acls |-> {},
    public_tools |-> {"list_schemas", "query"},
    tool_acls |-> [t \in {"list_tables"} |-> {"DB_VIEW"}]]}

\* caller emails handleToolCall is invoked with
CallerEmails == {Undefined, "a@x", "b@x", "c@x"}

InitTools ==
  /\ aclFile \in ToolConfigs
  /\ aclConfig = loadAclConfig(aclFile)
  /\ staffs = ScenarioStaffs
  /\ userCache = EmptyCache
  /\ ticks = 0
  /\ aclOut = NoOut
  /\ dbRows = InitRows
  /\ poolOut = 0
  /\ call = IdleCall
  /\ SseUnused
  /\ ChatUnused
  /\ ApiUnused
  /\ ConcUnused

NextTools ==
  \/ \E n \in ToolNames, a \in ArgSamples, e \in CallerEmails : handleToolCall(n, a, e)
  \/ CallSteps

SpecTools == InitTools /\ [][NextTools]_vars

(***************************************************************************)
(* The SSE server (index-sse.ts)                                           *)
(***************************************************************************)
\* X-User-Email header values of a GET /sse
HeaderValues == {Undefined, "a@x"}

\* _meta.user_email values of a request
MetaValues == {Undefined, " ", "b@x"}

\* index-sse.ts:51-55, 65-69: the email of the first entry of the map
FirstSessionEmail ==
  IF sessionEmails = << >> THEN Undefined ELSE sessionEmails[1].email

\* Map.delete(transport)
MapDelete(map, t) ==
  LET keep == {i \in 1..Len(map) : map[i].transport # t}
      F[i \in 0..Len(map)] ==
        IF i = 0 THEN << >>
        ELSE IF i \in keep THEN Append(F[i - 1], map[i]) ELSE F[i - 1]
  IN F[Len(map)]

\* index-sse.ts:80-92 GET /sse
SseConnect(t, headerEmail) ==
  /\ ~sseOpen[t].open
  /\ sseOpen' = [sseOpen EXCEPT ![t] = [open |-> TRUE, header |-> headerEmail]]
  /\ sessionEmails' = IF Truthy(headerEmail)
                        THEN Append(sessionEmails, [transport |-> t, email |-> headerEmail])
                        ELSE sessionEmails
  /\ UNCHANGED <<concVars, aclVars, callVars, envEmail, req, chatVars, apiVars>>

\* index-sse.ts:94-98 req.on("close")
SseClose(t) ==
  /\ sseOpen[t].open
  /\ sseOpen' = [sseOpen EXCEPT ![t] = [open |-> FALSE, header |-> Undefined]]
  /\ sessionEmails' = MapDelete(sessionEmails, t)
  /\ UNCHANGED <<concVars, aclVars, callVars, envEmail, req, chatVars, apiVars>>

\* index-sse.ts:48-59 list_tools received on session t
ListToolsRequest(t, meta, db) ==
  /\ sseOpen[t].open
  /\ LET userEmail == resolveUserEmail(meta, FirstSessionEmail, envEmail)
         f == FilterNow(userEmail, db)
     IN /\ userCache' = f.cache
        /\ req' = [kind |-> "list_tools", session |-> t, meta |-> meta,
                   header |-> sseOpen[t].header, userEmail |-> userEmail,
                   tools |-> f.tools]
  /\ UNCHANGED <<concVars, aclFile, aclConfig, staffs, ticks, aclOut, callVars,
                 sessionEmails, sseOpen, envEmail, chatVars, apiVars>>

\* index-sse.ts:61-77 the call_tool handler: resolve the email, start the call
ReceiveCallTool(t, meta, name, args) ==
  /\ sseOpen[t].open
  /\ call.pc = "idle"
  /\ LET userEmail == resolveUserEmail(meta, FirstSessionEmail, envEmail) IN
       /\ req' = [kind |-> "call_tool", session |-> t, meta |-> meta,
                  header |-> sseOpen[t].header, userEmail |-> userEmail, tools |-> {}]
       /\ call' = [IdleCall EXCEPT !.pc = "acl", !.name = name, !.args = args,
                                   !.userEmail = userEmail, !.rowsBefore = dbRows]
  /\ UNCHANGED <<concVars, aclVars, dbRows, poolOut, sessionEmails, sseOpen, envEmail>>

\* index-sse.ts:61-77 call_tool received on session t from an MCP client
CallToolRequest(t, meta, name, args) ==
  /\ ReceiveCallTool(t, meta, name, args)
  /\ UNCHANGED <<concVars, chatVars, apiVars>>

(***************************************************************************)
(* SpecSse: concurrent SSE sessions and their requests                     *)
(***************************************************************************)
InitSse ==
  /\ aclFile = ScenarioConfig
  /\ aclConfig = loadAclConfig(aclFile)
  /\ staffs = ScenarioStaffs
  /\ userCache = EmptyCache
  /\ ticks = 0
  /\ aclOut = NoOut
  /\ dbRows = InitRows
  /\ poolOut = 0
  /\ call = IdleCall
  /\ sessionEmails = << >>
  /\ sseOpen = NoSessions
  /\ envEmail \in {Undefined, "b@x"}
  /\ req = NoReq
  /\ ChatUnused
  /\ ApiUnused
  /\ ConcUnused

NextSse ==
  \/ \E t \in Transports, h \in HeaderValues : SseConnect(t, h)
  \/ \E t \in Transports : SseClose(t)
  \/ \E t \in Transports, m \in MetaValues, db \in DbOutcomes : ListToolsRequest(t, m, db)
  \/ \E t \in Transports, m \in MetaValues :
       CallToolRequest(t, m, "query", SqlArgs(<<"SELECT">>, FALSE))
  \/ SqlCallSteps

SpecSse == InitSse /\ [][NextSse]_vars

(***************************************************************************)
(* The orchestrator: POST /api/sessions/:id/messages (server.ts:167-190)   *)
(* and chat (agent.ts, part_002:278-398)                                   *)
(***************************************************************************)
\* bearer tokens a request carries: of the owner, of another user, of no one
Tokens == {"ta", "tb", "bad"}

\* the auth sessions of the two signed-in users (the userId is the email,
\* part_002:132)
TwoUsers ==
  {[token |-> "ta", userId |-> "a@x", email |-> "a@x", name |-> "n1",
    picture |-> "p1", createdAt |-> 0],
   [token |-> "tb", userId |-> "b@x", email |-> "b@x", name |-> "n2",
    picture |-> "", createdAt |-> 0]}

\* lengths of the user messages posted
MessageLengths == {60, 61}

\* the tool the LLM asks for, and its input
LlmTool == "get_sales_funnel_context"

\* part_002:154-165 with the staff record of the session's email looked at
validateSession_checksStaff(token) ==
  IF \E s \in authSessions :
       s.token = token /\ staffs[s.email].found /\ staffs[s.email].active = "true"
    THEN LET s == CHOOSE s \in authSessions : s.token = token
         IN [ok |-> TRUE, userId |-> s.userId, email |-> s.email,
             name |-> s.name, picture |-> s.picture]
    ELSE [ok |-> FALSE, userId |-> Undefined, email |-> Undefined,
          name |-> Undefined, picture |-> Undefined]

\* auth.ts validateSession (part_002:154-165): null is [ok |-> FALSE]
validateSession(token) ==
  IF \E s \in authSessions : s.token = token
    THEN LET s == CHOOSE s \in authSessions : s.token = token
         IN [ok |-> TRUE, userId |-> s.userId, email |-> s.email,
             name |-> s.name, picture |-> s.picture]
    ELSE [ok |-> FALSE, userId |-> Undefined, email |-> Undefined,
          name |-> Undefined, picture |-> Undefined]

\* db.ts getSession (82-89) with the userId left out of the filter
getSession_anyUser(userId) ==
  session.owner # Undefined

\* db.ts getSession(sessionId, userId) (82-89): is the session found
getSession(userId) ==
  session.owner # Undefined /\ (Truthy(userId) => session.owner = userId)

\* the response of a request, as the api record
Response(route, token, status, user, handled) ==
  [route |-> route, token |-> token, status |-> status, user |-> user,
   handled |-> handled]

\* server.ts:44-72 with the token not validated
authMiddleware_trusting(token) ==
  IF token = Undefined
    THEN [ok |-> FALSE, userId |-> Undefined, email |-> Undefined,
          name |-> Undefined, picture |-> Undefined]
    ELSE [ok |-> TRUE, userId |-> "a@x", email |-> "a@x", name |-> "", picture |-> ""]

\* server.ts:44-72 authMiddleware on a gated route: the user attached, or
\* [ok |-> FALSE] for the 401 (token Undefined: no Bearer header)
authMiddleware(token) ==
  IF token = Undefined
    THEN [ok |-> FALSE, userId |-> Undefined, email |-> Undefined,
          name |-> Undefined, picture |-> Undefined]
    ELSE validateSession(token)

\* db.ts appendMessage (117-133): the message inserted; of its content the
\* model keeps the leading part: "" (empty), "text" (user or assistant text),
\* and for a tool result the first text part up to its message
StoredMessage(role, content, toolUseId) ==
  [role |-> role, content |-> content, toolUseId |-> toolUseId]

\* db.ts appendMessage (117-133): insert the message, touch the session
\* (updateOne matches no document when the session is not stored)
appendMessage(msg) ==
  /\ messages' = Append(messages, msg)
  /\ session' = IF session.owner # Undefined
                  THEN [session EXCEPT !.updatedAt = now] ELSE session

\* part_002:224-229 flush(): the current turn, if it has content, is pushed
flush(st) ==
  IF st.role # "null" /\ st.content # << >>
    THEN [st EXCEPT !.claude = Append(@, [role |-> st.role, content |-> st.content]),
                    !.content = << >>]
    ELSE st

\* the content block made of a stored message
ContentBlock(msg) ==
  [type |-> IF msg.role \in {"user", "assistant"} THEN "text" ELSE msg.role,
   id |-> msg.toolUseId, content |-> msg.content]

\* part_002:231-263 one stored message is taken into the turns
translateStep(st, msg) ==
  IF msg.role \in {"user", "assistant"}
    THEN [flush(st) EXCEPT !.role = msg.role, !.content = <<ContentBlock(msg)>>]
  ELSE LET turn == IF msg.role = "tool_use" THEN "assistant" ELSE "user" IN
    IF st.role # turn
      THEN [flush(st) EXCEPT !.role = turn, !.content = <<ContentBlock(msg)>>]
      ELSE [st EXCEPT !.content = Append(@, ContentBlock(msg))]

\* part_002:218-269 dbMessagesToClaudeMessages: the turns sent to the LLM
dbMessagesToClaudeMessages(dbMsgs) ==
  LET F[i \in 0..Len(dbMsgs)] ==
        IF i = 0 THEN [claude |-> << >>, role |-> "null", content |-> << >>]
        ELSE translateStep(F[i - 1], dbMsgs[i])
  IN flush(F[Len(dbMsgs)]).claude

\* the answers of the LLM: has text, number of tool_use blocks, stop_reason
LlmResponses ==
  [text : BOOLEAN, tools : 0..2, stop : {"end_turn", "tool_use"}]

\* agent.ts (part_002:352): the answer ends the loop
Stops(resp) == resp.stop = "end_turn" \/ resp.tools = 0

\* the answer that asks for one tool and goes on
CanonicalResponse == [text |-> TRUE, tools |-> 1, stop |-> "tool_use"]

\* the answer that is the final text
FinalResponse == [text |-> TRUE, tools |-> 0, stop |-> "end_turn"]

\* the answers the LLM gives in a round
RoundResponses(round) ==
  IF round < MaxFreeRounds THEN LlmResponses
  ELSE {CanonicalResponse, FinalResponse}

\* agent.ts (part_002:390-393) with the text used as the title uncut
titleSnippet_uncut(len) ==
  [custom |-> TRUE, len |-> len, ellipsis |-> FALSE]

\* agent.ts (part_002:390-393): the title made of the user message
titleSnippet(len) ==
  IF len > 60 THEN [custom |-> TRUE, len |-> 57 + 3, ellipsis |-> TRUE]
  ELSE [custom |-> TRUE, len |-> len, ellipsis |-> FALSE]

\* the route of a chat request
PostMessageRoute == "POST /api/sessions/:id/messages"

\* server.ts:44-72, 167-182: the bearer gate, the ownership check, chat starts
\* (the response of a chat that started is sent when it ends: status 0)
PostMessage(token, len) ==
  /\ chat.pc = "idle"
  /\ LET user == authMiddleware(token) IN
       /\ chat' = IF ~user.ok THEN [chat EXCEPT !.http = 401]
                  ELSE IF ~getSession(user.userId) THEN [chat EXCEPT !.http = 404]
                  ELSE [IdleChat EXCEPT !.pc = "append_user", !.user = user.email,
                                        !.userLen = len, !.nextId = chat.nextId,
                                        !.held = Len(messages)]
       /\ api' = IF ~user.ok
                   THEN Response(PostMessageRoute, token, 401, Undefined, FALSE)
                 ELSE IF ~getSession(user.userId)
                   THEN Response(PostMessageRoute, token, 404, user.email, TRUE)
                 ELSE Response(PostMessageRoute, token, 0, user.email, TRUE)
  /\ UNCHANGED <<concVars, aclVars, toolVars, authSessions, session, messages,
                 otherSessions, logins, tokenCtr, loggedOut>>

\* part_002:286 persist the user message
AppendUser ==
  /\ chat.pc = "append_user"
  /\ appendMessage(StoredMessage("user", "text", 0))
  /\ chat' = [chat EXCEPT !.pc = "load"]
  /\ UNCHANGED <<concVars, aclVars, toolVars, apiVars, authSessions>>

\* part_002:289-290 load the history
LoadHistory ==
  /\ chat.pc = "load"
  /\ chat' = [chat EXCEPT !.pc = "llm", !.dbLen = Len(messages), !.round = 0]
  /\ UNCHANGED <<concVars, aclVars, toolVars, apiVars, authSessions, session, messages>>

\* part_002:296-329 one LLM call of the loop with the cap dropped
LlmCall_uncapped(resp) ==
  /\ chat.pc = "llm"
  /\ resp \in RoundResponses(chat.round)
  /\ chat' = [chat EXCEPT !.pc = "persist_text", !.resp = resp,
                          !.llmCalls = @ + 1,
                          !.ids = [k \in 1..resp.tools |-> chat.nextId + k - 1],
                          !.nextId = @ + resp.tools]
  /\ UNCHANGED <<concVars, aclVars, toolVars, apiVars, authSessions, session, messages>>

\* part_002:296-329 one LLM call of the loop: round < MAX_TOOL_ROUNDS
LlmCall(resp) ==
  /\ chat.pc = "llm"
  /\ chat.round < MAX_TOOL_ROUNDS
  /\ resp \in RoundResponses(chat.round)
  /\ chat' = [chat EXCEPT !.pc = "persist_text", !.resp = resp,
                          !.llmCalls = @ + 1,
                          !.ids = [k \in 1..resp.tools |-> chat.nextId + k - 1],
                          !.nextId = @ + resp.tools]
  /\ UNCHANGED <<concVars, aclVars, toolVars, apiVars, authSessions, session, messages>>

\* part_002:305 client.messages.create rejects: chat rejects, HTTP 500
LlmError ==
  /\ chat.pc = "llm"
  /\ chat.round < MAX_TOOL_ROUNDS
  /\ chat' = [chat EXCEPT !.pc = "failed", !.llmCalls = @ + 1, !.http = 500]
  /\ UNCHANGED <<concVars, aclVars, toolVars, apiVars, authSessions, session, messages>>

\* part_002:296 the loop condition fails: the loop is left with finalText ""
LoopExit ==
  /\ chat.pc = "llm"
  /\ ~(chat.round < MAX_TOOL_ROUNDS)
  /\ chat' = [chat EXCEPT !.pc = "title"]
  /\ UNCHANGED <<concVars, aclVars, toolVars, apiVars, authSessions, session, messages>>

\* part_002:332-338 persist the assistant text, if any
PersistText ==
  /\ chat.pc = "persist_text"
  /\ IF chat.resp.text
       THEN appendMessage(StoredMessage("assistant", "text", 0))
       ELSE UNCHANGED <<concVars, session, messages>>
  /\ chat' = [chat EXCEPT !.pc = "persist_tool_use", !.i = 1]
  /\ UNCHANGED <<concVars, aclVars, toolVars, apiVars, authSessions>>

\* part_002:341-349 persist the next tool_use block
PersistToolUse ==
  /\ chat.pc = "persist_tool_use"
  /\ chat.i <= chat.resp.tools
  /\ appendMessage(StoredMessage("tool_use", "", chat.ids[chat.i]))
  /\ chat' = [chat EXCEPT !.i = @ + 1]
  /\ UNCHANGED <<concVars, aclVars, toolVars, apiVars, authSessions>>

\* part_002:352-355 the stop check, after the tool_use blocks are persisted
StopCheck ==
  /\ chat.pc = "persist_tool_use"
  /\ chat.i > chat.resp.tools
  /\ chat' = IF Stops(chat.resp)
               THEN [chat EXCEPT !.pc = "title", !.finalText = chat.resp.text]
               ELSE [chat EXCEPT !.pc = "call_tool", !.i = 1]
  /\ UNCHANGED <<concVars, aclVars, toolVars, apiVars, authSessions, session, messages>>

\* the SSE connection the bridge opened at startup (mcp-bridge.ts:32-33)
BridgeTransport == 1

\* the SSE connection of another MCP client of the tool server
OtherTransport == 2

\* mcp-bridge.ts:69 mcpClient.callTool({name, arguments}): the request carries
\* no _meta, and reaches the call_tool handler of the server
BridgeCall ==
  /\ chat.pc = "call_tool"
  /\ ReceiveCallTool(BridgeTransport, Undefined, LlmTool, EmptyObject)
  /\ chat' = [chat EXCEPT !.pc = "wait_tool"]
  /\ UNCHANGED <<concVars, apiVars, authSessions, session, messages>>

\* tool calls fail (rejected callTool, failed staff lookup, throwing tool
\* body) in one round of a chat
FaultsAllowed == chat.round = FaultRound

\* part_002:365-367 with the catch left out: a rejected callTool rejects chat
BridgeThrow_uncaught ==
  /\ chat.pc = "call_tool"
  /\ FaultsAllowed
  /\ chat' = [chat EXCEPT !.pc = "failed", !.http = 500,
                          !.threw = @ \cup {chat.i}]
  /\ UNCHANGED <<concVars, aclVars, toolVars, apiVars, authSessions, session, messages>>

\* part_002:365-367 callTool rejects: the result text is "Error: <message>"
BridgeThrow ==
  /\ chat.pc = "call_tool"
  /\ FaultsAllowed
  /\ chat' = [chat EXCEPT !.pc = "persist_result", !.resultText = "Error: ",
                          !.threw = @ \cup {chat.i}]
  /\ UNCHANGED <<concVars, aclVars, toolVars, apiVars, authSessions, session, messages>>

\* mcp-bridge.ts:69-78 the result arrives; its text parts are the result text
ToolReturn ==
  /\ chat.pc = "wait_tool"
  /\ call.pc = "done"
  /\ call' = IdleCall
  /\ chat' = [chat EXCEPT !.pc = "persist_result", !.resultText = call.result.text[1]]
  /\ UNCHANGED <<concVars, aclVars, dbRows, poolOut, sseVars, apiVars, authSessions, session, messages>>

\* part_002:369-380 record the call, persist the tool_result
PersistResult ==
  /\ chat.pc = "persist_result"
  /\ appendMessage(StoredMessage("tool_result", chat.resultText, chat.ids[chat.i]))
  /\ chat' = [chat EXCEPT !.toolCalls = @ + 1, !.i = @ + 1, !.resultText = "",
                          !.pc = IF chat.i + 1 <= chat.resp.tools THEN "call_tool"
                                 ELSE "reload"]
  /\ UNCHANGED <<concVars, aclVars, toolVars, apiVars, authSessions>>

\* part_002:384-385, 296: reload the history, round++
Reload ==
  /\ chat.pc = "reload"
  /\ chat' = [chat EXCEPT !.pc = "llm", !.round = @ + 1, !.threw = {}]
  /\ UNCHANGED <<concVars, aclVars, toolVars, apiVars, authSessions, session, messages>>

\* part_002:389-397, server.ts:183: the title of a new session, the response
TitleAndReturn ==
  /\ chat.pc = "title"
  /\ session' = IF chat.dbLen <= 1 /\ session.owner # Undefined
                  THEN [session EXCEPT !.title = titleSnippet(chat.userLen),
                                       !.updatedAt = now]
                  ELSE session
  /\ chat' = [chat EXCEPT !.pc = "done", !.http = 200]
  /\ UNCHANGED <<concVars, aclVars, toolVars, apiVars, authSessions, messages>>

\* the steps of a chat invocation in progress, the tool server's included
ChatSteps ==
  \/ AppendUser
  \/ LoadHistory
  \/ \E r \in LlmResponses : LlmCall(r)
  \/ LlmError
  \/ LoopExit
  \/ PersistText
  \/ PersistToolUse
  \/ StopCheck
  \/ BridgeCall
  \/ BridgeThrow
  \/ \E db \in (IF FaultsAllowed THEN DbOutcomes ELSE {"ok"}) : AclGate(db)
  \/ Dispatch
  \/ \E o \in (IF FaultsAllowed THEN {"ok", "throws"} ELSE {"ok"}) : Body(o)
  \/ ToolReturn
  \/ PersistResult
  \/ Reload
  \/ TitleAndReturn

(***************************************************************************)
(* SpecChat: one chat invocation over LLM answers and tool outcomes        *)
(***************************************************************************)
\* the histories a chat starts from: a new session, one earlier exchange.
\* The tool server has the bridge's connection (no header) and another
\* client's, opened with or without X-User-Email.
InitTranscripts ==
  {<< >>,
   <<StoredMessage("user", "text", 0), StoredMessage("assistant", "text", 0)>>}

InitChat ==
  /\ aclFile = NoFile
  /\ aclConfig = loadAclConfig(aclFile)
  /\ staffs = ScenarioStaffs
  /\ userCache = EmptyCache
  /\ ticks = 0
  /\ aclOut = NoOut
  /\ dbRows = InitRows
  /\ poolOut = 0
  /\ call = IdleCall
  /\ \E h \in HeaderValues :
       /\ sseOpen = [t \in Transports |->
                      IF t = BridgeTransport THEN [open |-> TRUE, header |-> Undefined]
                      ELSE IF t = OtherTransport THEN [open |-> TRUE, header |-> h]
                      ELSE [open |-> FALSE, header |-> Undefined]]
       /\ sessionEmails = IF Truthy(h)
                            THEN <<[transport |-> OtherTransport, email |-> h]>>
                            ELSE << >>
  /\ envEmail \in {Undefined, "b@x"}
  /\ req = NoReq
  /\ authSessions = TwoUsers
  /\ messages \in InitTranscripts
  /\ session = [owner |-> "a@x",
                title |-> IF messages = << >> THEN NewTitle ELSE titleSnippet(5),
                updatedAt |-> 0]
  /\ chat = IdleChat
  /\ ApiUnused
  /\ ConcUnused

NextChat ==
  \/ \E tok \in Tokens, len \in MessageLengths : PostMessage(tok, len)
  \/ ChatSteps

SpecChat == InitChat /\ [][NextChat]_vars /\ WF_vars(ChatSteps)

(***************************************************************************)
(* The HTTP API: login, logout and the gated session routes                *)
(* (auth.ts = part_002:1-171, server.ts, db.ts)                            *)
(***************************************************************************)
\* the authenticateGoogleUser invocations that can be in progress at a time
Logins == {"L1", "L2"}

\* email fields of the Google profiles posted (Undefined: no email)
ProfileEmails == {Undefined, "a@x", " A@X ", "b@x", "c@x"}

\* name and picture fields of the Google profiles posted
ProfileFields == {<<"", "">>, <<"n1", "p1">>, <<"n2", "">>}

\* the bodies of POST /api/auth/google: no userProfile, an undecodable one,
\* and the profiles
LoginBodies ==
  {[kind |-> k, email |-> Undefined, name |-> "", picture |-> ""] :
     k \in {"missing", "garbled"}}
  \cup {[kind |-> "profile", email |-> e, name |-> f[1], picture |-> f[2]] :
          e \in ProfileEmails, f \in ProfileFields}

\* no stored auth session
NoAuthSession ==
  [found |-> FALSE, token |-> Undefined, userId |-> Undefined, email |-> Undefined,
   name |-> "", picture |-> "", createdAt |-> 0]

\* no authenticateGoogleUser invocation in the slot
IdleLogin ==
  [pc |-> "idle", email |-> Undefined, name |-> "", picture |-> "",
   existing |-> NoAuthSession, loggedOutAtStart |-> {}]

\* uuidv4(): the n-th token drawn
uuidv4(n) == "t" \o ToString(n)

\* the tokens uuidv4() can have drawn
IssuedTokens == {uuidv4(n) : n \in 1..MaxTokens}

\* a || b on strings
OrElse(a, b) == IF a # "" THEN a ELSE b

\* authSessions.findOne({email})
FindByEmail(email) ==
  IF \E s \in authSessions : s.email = email
    THEN [found |-> TRUE] @@ (CHOOSE s \in authSessions : s.email = email)
    ELSE NoAuthSession


\* server.ts:76-90, part_002:58-74: the body is checked and decoded, the
\* email lower-cased and trimmed; pgPool.connect() is awaited. (The second
\* slot is taken when the first is busy.)
LoginRequest(p, body) ==
  /\ logins[p].pc = "idle"
  /\ p = "L2" => logins["L1"].pc # "idle"
  /\ IF body.kind # "profile" \/ ~Truthy(body.email)
       THEN /\ api' = Response("POST /api/auth/google", Undefined, 400, Undefined, TRUE)
            /\ logins' = logins
       ELSE /\ logins' = [logins EXCEPT ![p] =
                 [IdleLogin EXCEPT !.pc = "staff",
                                   !.email = Trim(ToLowerCase(body.email)),
                                   !.name = body.name, !.picture = body.picture,
                                   !.loggedOutAtStart = loggedOut]]
            /\ api' = api
  /\ UNCHANGED <<concVars, aclVars, toolVars, chatVars, otherSessions, tokenCtr, loggedOut>>

\* part_002:77-103 with the active flag not looked at
LoginStaff_anyRow(p, db) ==
  /\ logins[p].pc = "staff"
  /\ LET row == staffs[logins[p].email] IN
       IF db # "ok"
         THEN /\ api' = Response("POST /api/auth/google", Undefined, 400, Undefined, TRUE)
              /\ logins' = [logins EXCEPT ![p] = IdleLogin]
       ELSE IF ~row.found
         THEN /\ api' = Response("POST /api/auth/google", Undefined, 403, Undefined, TRUE)
              /\ logins' = [logins EXCEPT ![p] = IdleLogin]
       ELSE /\ api' = api
            /\ logins' = [logins EXCEPT ![p].pc = "find"]
  /\ UNCHANGED <<concVars, aclVars, toolVars, chatVars, otherSessions, tokenCtr, loggedOut>>

\* part_002:77-103, server.ts:85-88: the staff row is read; no row or an
\* inactive row is "Access denied" (403), any other error is 400
LoginStaff(p, db) ==
  /\ logins[p].pc = "staff"
  /\ LET row == staffs[logins[p].email] IN
       IF db # "ok"
         THEN /\ api' = Response("POST /api/auth/google", Undefined, 400, Undefined, TRUE)
              /\ logins' = [logins EXCEPT ![p] = IdleLogin]
       ELSE IF ~row.found \/ row.active # "true"
         THEN /\ api' = Response("POST /api/auth/google", Undefined, 403, Undefined, TRUE)
              /\ logins' = [logins EXCEPT ![p] = IdleLogin]
       ELSE /\ api' = api
            /\ logins' = [logins EXCEPT ![p].pc = "find"]
  /\ UNCHANGED <<concVars, aclVars, toolVars, chatVars, otherSessions, tokenCtr, loggedOut>>

\* part_002:106 existing = await authSessions.findOne({email})
LoginFind(p) ==
  /\ logins[p].pc = "find"
  /\ LET existing == FindByEmail(logins[p].email) IN
       logins' = [logins EXCEPT ![p].existing = existing,
                                ![p].pc = IF existing.found THEN "update" ELSE "insert"]
  /\ UNCHANGED <<concVars, aclVars, toolVars, chatVars, otherSessions, tokenCtr, loggedOut, api>>

\* part_002:107-127 with a new token written on a repeat login
LoginUpdate_rotatesToken(p) ==
  /\ logins[p].pc = "update"
  /\ tokenCtr < MaxTokens
  /\ LET l == logins[p]
         name == OrElse(l.name, l.existing.name)
         picture == OrElse(l.picture, l.existing.picture)
     IN /\ authSessions' =
             {IF s.email = l.email
                THEN [s EXCEPT !.name = name, !.picture = picture,
                               !.token = uuidv4(tokenCtr + 1)]
              ELSE s : s \in authSessions}
        /\ api' = Response("POST /api/auth/google", uuidv4(tokenCtr + 1), 200,
                           l.email, TRUE)
  /\ tokenCtr' = tokenCtr + 1
  /\ logins' = [logins EXCEPT ![p] = IdleLogin]
  /\ UNCHANGED <<concVars, aclVars, toolVars, session, messages, chat, otherSessions, loggedOut>>

\* part_002:107-127: the stored session of the email gets the new name and
\* picture; the token found before is returned
LoginUpdate(p) ==
  /\ logins[p].pc = "update"
  /\ LET l == logins[p]
         name == OrElse(l.name, l.existing.name)
         picture == OrElse(l.picture, l.existing.picture)
     IN /\ authSessions' =
             {IF s.email = l.email THEN [s EXCEPT !.name = name, !.picture = picture]
              ELSE s : s \in authSessions}
        /\ api' = Response("POST /api/auth/google", l.existing.token, 200, l.email, TRUE)
  /\ logins' = [logins EXCEPT ![p] = IdleLogin]
  /\ UNCHANGED <<concVars, aclVars, toolVars, session, messages, chat, otherSessions,
                 tokenCtr, loggedOut>>

\* part_002:129-149 with no unique index on email
LoginInsert_noIndex(p) ==
  /\ logins[p].pc = "insert"
  /\ tokenCtr < MaxTokens
  /\ LET l == logins[p]
         new == [token |-> uuidv4(tokenCtr + 1), userId |-> l.email, email |-> l.email,
                 name |-> l.name, picture |-> l.picture, createdAt |-> now]
     IN /\ authSessions' = authSessions \cup {new}
        /\ api' = Response("POST /api/auth/google", new.token, 200, l.email, TRUE)
  /\ tokenCtr' = tokenCtr + 1
  /\ logins' = [logins EXCEPT ![p] = IdleLogin]
  /\ UNCHANGED <<concVars, aclVars, toolVars, session, messages, chat, otherSessions, loggedOut>>

\* part_002:129-149, db.ts:54-55: a session with a fresh token is inserted;
\* the unique index on email rejects a second session of the email (400)
LoginInsert(p) ==
  /\ logins[p].pc = "insert"
  /\ tokenCtr < MaxTokens
  /\ LET l == logins[p]
         new == [token |-> uuidv4(tokenCtr + 1), userId |-> l.email, email |-> l.email,
                 name |-> l.name, picture |-> l.picture, createdAt |-> now]
     IN IF \E s \in authSessions : s.email = l.email
          THEN /\ authSessions' = authSessions
               /\ api' = Response("POST /api/auth/google", Undefined, 400, Undefined, TRUE)
          ELSE /\ authSessions' = authSessions \cup {new}
               /\ api' = Response("POST /api/auth/google", new.token, 200, l.email, TRUE)
  /\ tokenCtr' = tokenCtr + 1
  /\ logins' = [logins EXCEPT ![p] = IdleLogin]
  /\ UNCHANGED <<concVars, aclVars, toolVars, session, messages, chat, otherSessions, loggedOut>>

\* server.ts:104-114, part_002:169-171 with the delete left out
Logout_keepsSession(token) ==
  /\ authSessions' = authSessions
  /\ loggedOut' = IF token # Undefined THEN loggedOut \cup {token} ELSE loggedOut
  /\ api' = Response("POST /api/auth/logout", token, 200, Undefined, TRUE)
  /\ UNCHANGED <<concVars, aclVars, toolVars, session, messages, chat, otherSessions,
                 logins, tokenCtr>>

\* server.ts:104-114, part_002:169-171: the auth session of the bearer token
\* is deleted (token Undefined: no Authorization header)
Logout(token) ==
  /\ authSessions' = {s \in authSessions : s.token # token}
  /\ loggedOut' = IF token # Undefined THEN loggedOut \cup {token} ELSE loggedOut
  /\ api' = Response("POST /api/auth/logout", token, 200, Undefined, TRUE)
  /\ UNCHANGED <<concVars, aclVars, toolVars, session, messages, chat, otherSessions,
                 logins, tokenCtr>>

\* server.ts:129-137 GET /api/sessions
ListSessions(token) ==
  /\ LET user == authMiddleware(token) IN
       api' = IF ~user.ok THEN Response("GET /api/sessions", token, 401, Undefined, FALSE)
              ELSE Response("GET /api/sessions", token, 200, user.email, TRUE)
  /\ UNCHANGED <<concVars, aclVars, toolVars, chatVars, otherSessions, logins, tokenCtr, loggedOut>>

\* server.ts:92-102 GET /api/auth/me: the path starts with /api/auth/, so
\* authMiddleware passes the request on without a user (server.ts:49-52)
GetMe(token) ==
  /\ api' = Response("GET /api/auth/me", token, 401, Undefined, TRUE)
  /\ UNCHANGED <<concVars, aclVars, toolVars, chatVars, otherSessions, logins, tokenCtr, loggedOut>>

(***************************************************************************)
(* SpecAuth: concurrent logins, logouts and gated requests                 *)
(***************************************************************************)
\* the auth session of b@x, signed in before the staff row was deactivated
SessionOfB ==
  [token |-> "tb", userId |-> "b@x", email |-> "b@x", name |-> "n2",
   picture |-> "", createdAt |-> 0]

\* bearer tokens that are or were those of an auth session: b's and the
\* tokens issued so far
KnownTokens == {"tb"} \cup {uuidv4(n) : n \in 1..tokenCtr}

\* bearer tokens requests carry: none, one of no session, and the known ones
RequestTokens == {Undefined, "bad"} \cup KnownTokens

\* staff rows of SpecAuth: a@x active, b@x deactivated, no others
AuthStaffs == [ScenarioStaffs EXCEPT !["b@x"].active = "false"]

InitAuth ==
  /\ aclFile = NoFile
  /\ aclConfig = loadAclConfig(aclFile)
  /\ staffs = AuthStaffs
  /\ userCache = EmptyCache
  /\ ticks = 0
  /\ aclOut = NoOut
  /\ dbRows = InitRows
  /\ poolOut = 0
  /\ call = IdleCall
  /\ SseUnused
  /\ authSessions = {SessionOfB}
  /\ session = [owner |-> Undefined, title |-> NewTitle, updatedAt |-> 0]
  /\ messages = << >>
  /\ chat = IdleChat
  /\ otherSessions = {}
  /\ logins = [p \in Logins |-> IdleLogin]
  /\ tokenCtr = 0
  /\ loggedOut = {}
  /\ api = NoApi
  /\ ConcUnused

\* the steps of the logins in progress
LoginSteps ==
  \/ \E p \in Logins, db \in DbOutcomes : LoginStaff(p, db)
  \/ \E p \in Logins : LoginFind(p)
  \/ \E p \in Logins : LoginUpdate(p)
  \/ \E p \in Logins : LoginInsert(p)

\* logins one at a time, with logouts and gated requests in between and
\* during them
NextAuth ==
  \/ \E body \in LoginBodies : LoginRequest("L1", body)
  \/ LoginSteps
  \/ \E t \in {Undefined} \cup KnownTokens : Logout(t)
  \/ \E t \in KnownTokens : ListSessions(t)

SpecAuth == InitAuth /\ [][NextAuth]_vars

(***************************************************************************)
(* SpecAuthRace: two concurrent logins of one email, and logouts           *)
(***************************************************************************)
\* the profiles of a@x the racing logins post
RaceBodies ==
  {[kind |-> "profile", email |-> "a@x", name |-> f[1], picture |-> f[2]] :
     f \in {<<"n1", "p1">>, <<"n2", "">>}}

NextAuthRace ==
  \/ \E p \in Logins, body \in RaceBodies : LoginRequest(p, body)
  \/ LoginSteps
  \/ \E t \in KnownTokens : Logout(t)

SpecAuthRace == InitAuth /\ [][NextAuthRace]_vars

(***************************************************************************)
(* SpecRoutes: the gated routes of conversation sessions                   *)
(***************************************************************************)
\* the id of the conversation session held in session and messages
MainSession == "s0"

\* session ids requests name: the stored one, the created ones, an unknown one
SessionIds == {MainSession, "nosuch"} \cup {uuidv4(n) : n \in 1..tokenCtr}

\* bearer tokens requests carry: no header, no session's, a@x's, b@x's
RouteTokens == {Undefined, "bad", "ta", "tb"}

\* bearer tokens of requests by others than the owner of the stored session
StrangerTokens == RouteTokens \ {"ta"}

\* a conversation session that is not stored
NoSession == [owner |-> Undefined, title |-> NewTitle, updatedAt |-> 0]

\* db.ts getSession (82-89) over all stored sessions: is the session found
findSession(id, userId) ==
  IF id = MainSession THEN getSession(userId)
  ELSE \E s \in otherSessions :
         s.sessionId = id /\ (Truthy(userId) => s.userId = userId)

\* server.ts:118-127, db.ts:67-80 POST /api/sessions
CreateSession(token) ==
  /\ LET user == authMiddleware(token) IN
       IF ~user.ok
         THEN /\ api' = Response("POST /api/sessions", token, 401, Undefined, FALSE)
              /\ UNCHANGED <<concVars, otherSessions, tokenCtr>>
         ELSE /\ tokenCtr < MaxTokens
              /\ otherSessions' = otherSessions \cup
                   {[sessionId |-> uuidv4(tokenCtr + 1), userId |-> user.userId]}
              /\ tokenCtr' = tokenCtr + 1
              /\ api' = Response("POST /api/sessions", token, 201, user.email, TRUE)
  /\ UNCHANGED <<concVars, aclVars, toolVars, chatVars, logins, loggedOut>>

\* server.ts:139-153 GET /api/sessions/:id
GetSessionRoute(token, id) ==
  /\ LET user == authMiddleware(token) IN
       api' = IF ~user.ok
                THEN Response("GET /api/sessions/:id", token, 401, Undefined, FALSE)
              ELSE IF ~findSession(id, user.userId)
                THEN Response("GET /api/sessions/:id", token, 404, user.email, TRUE)
              ELSE Response("GET /api/sessions/:id", token, 200, user.email, TRUE)
  /\ UNCHANGED <<concVars, aclVars, toolVars, chatVars, otherSessions, logins, tokenCtr, loggedOut>>

\* server.ts:155-163, db.ts:95-103 DELETE /api/sessions/:id: deleteMany of
\* the messages by sessionId, then deleteOne of the session by sessionId and
\* userId
DeleteSessionRoute(token, id) ==
  /\ LET user == authMiddleware(token) IN
       IF ~user.ok
         THEN /\ api' = Response("DELETE /api/sessions/:id", token, 401, Undefined, FALSE)
              /\ UNCHANGED <<concVars, session, messages, otherSessions>>
         ELSE /\ messages' = IF id = MainSession THEN << >> ELSE messages
              /\ session' = IF id = MainSession /\ getSession(user.userId)
                              THEN NoSession ELSE session
              /\ otherSessions' =
                   {s \in otherSessions :
                      ~(s.sessionId = id /\ (Truthy(user.userId) => s.userId = user.userId))}
              /\ api' = Response("DELETE /api/sessions/:id", token, 200, user.email, TRUE)
  /\ UNCHANGED <<concVars, aclVars, toolVars, authSessions, chat, logins, tokenCtr, loggedOut>>

InitRoutes ==
  /\ aclFile = NoFile
  /\ aclConfig = loadAclConfig(aclFile)
  /\ staffs = ScenarioStaffs
  /\ userCache = EmptyCache
  /\ ticks = 0
  /\ aclOut = NoOut
  /\ dbRows = InitRows
  /\ poolOut = 0
  /\ call = IdleCall
  /\ SseUnused
  /\ authSessions = TwoUsers
  /\ messages \in InitTranscripts
  /\ session = [owner |-> "a@x",
                title |-> IF messages = << >> THEN NewTitle ELSE titleSnippet(5),
                updatedAt |-> 0]
  /\ chat = IdleChat
  /\ otherSessions = {}
  /\ logins = << >>
  /\ tokenCtr = 0
  /\ loggedOut = {}
  /\ api = NoApi
  /\ ConcUnused

\* requests of the two users and of strangers, one at a time; chat requests
\* to the stored session come from others than its owner (the owner's are
\* SpecChat)
NextRoutes ==
  \/ \E tok \in RouteTokens : CreateSession(tok)
  \/ \E tok \in RouteTokens : ListSessions(tok)
  \/ \E tok \in RouteTokens, id \in SessionIds : GetSessionRoute(tok, id)
  \/ \E tok \in RouteTokens, id \in SessionIds : DeleteSessionRoute(tok, id)
  \/ \E tok \in StrangerTokens, len \in MessageLengths : PostMessage(tok, len)
  \/ \E tok \in RouteTokens : GetMe(tok)
  \/ \E tok \in {"ta", "tb"} : Logout(tok)

SpecRoutes == InitRoutes /\ [][NextRoutes]_vars

(***************************************************************************)
(* SpecAclRace: staff lookups in flight while a staff row changes          *)
(***************************************************************************)
\* clock ticks SpecAclRace lets pass
MaxRaceTicks == 2

\* milliseconds per clock tick of SpecAclRace: half a tick
RaceTickMs == TickMs \div 2

\* Date.now() in SpecAclRace
raceNow == ticks * RaceTickMs

\* the callers of resolveUserAcls that run at a time
Lookers == {"K1", "K2"}

\* the email looked up
RaceEmail == "a@x"

\* the rows the staff record of a@x changes between: as first stored,
\* deactivated, and with another ACL
RaceRows ==
  {ScenarioStaffs[RaceEmail],
   [ScenarioStaffs[RaceEmail] EXCEPT !.active = "false"],
   [ScenarioStaffs[RaceEmail] EXCEPT !.acl_array = {"OTHER"}]}

\* no resolveUserAcls invocation of the caller has started (since: the time
\* the invocation was called, at: the time it returned)
IdleLookup ==
  [pc |-> "idle", row |-> NoRow, user |-> NoUser, failed |-> FALSE, since |-> 0,
   at |-> 0]

\* acl.ts:104-113 the cache is read: a fresh entry answers, else the lookup
\* goes to the store
LookupStart(k) ==
  /\ lookups[k].pc \in {"idle", "decided"}
  /\ lookups' = [lookups EXCEPT ![k] =
       IF CacheHit(userCache, RaceEmail, raceNow)
         THEN [IdleLookup EXCEPT !.pc = "decided",
                 !.user = [found |-> TRUE, acls |-> userCache[RaceEmail].acls,
                           active |-> userCache[RaceEmail].active],
                 !.since = raceNow, !.at = raceNow]
         ELSE [IdleLookup EXCEPT !.pc = "query", !.since = raceNow]]
  /\ UNCHANGED <<aclVars, toolVars, chatVars, apiVars, chatB, writes, staffChangedAt>>

\* acl.ts:115-124, 134-137 the SELECT runs: it throws, finds no row, or
\* returns the row stored at this moment
LookupQuery(k, db) ==
  /\ lookups[k].pc = "query"
  /\ lookups' = [lookups EXCEPT ![k] =
       IF db # "ok"
         THEN [lookups[k] EXCEPT !.pc = "decided", !.failed = TRUE, !.at = raceNow]
       ELSE IF ~staffs[RaceEmail].found
         THEN [lookups[k] EXCEPT !.pc = "decided", !.at = raceNow]
       ELSE [lookups[k] EXCEPT !.pc = "set", !.row = staffs[RaceEmail]]]
  /\ UNCHANGED <<aclVars, toolVars, chatVars, apiVars, chatB, writes, staffChangedAt>>

\* acl.ts:126-133 after COMMIT the row read is cached with fetched_at
\* Date.now() and returned
LookupSet(k) ==
  /\ lookups[k].pc = "set"
  /\ LET u == UserOfRow(lookups[k].row) IN
       /\ userCache' = [userCache EXCEPT ![RaceEmail] =
            [has |-> TRUE, acls |-> u.acls, active |-> u.active,
             fetched_at |-> raceNow]]
       /\ lookups' = [lookups EXCEPT ![k] =
            [lookups[k] EXCEPT !.pc = "decided", !.row = NoRow, !.user = u,
                               !.at = raceNow]]
  /\ UNCHANGED <<aclFile, aclConfig, staffs, ticks, aclOut, toolVars, chatVars,
                 apiVars, chatB, writes, staffChangedAt>>

\* the staff record of a@x is changed in the store
StaffChange(row) ==
  /\ row # staffs[RaceEmail]
  /\ staffs' = [staffs EXCEPT ![RaceEmail] = row]
  /\ staffChangedAt' = raceNow
  /\ UNCHANGED <<aclFile, aclConfig, userCache, ticks, aclOut, toolVars, chatVars,
                 apiVars, chatB, writes, lookups>>

\* time passes
RaceTick ==
  /\ ticks < MaxRaceTicks
  /\ ticks' = ticks + 1
  /\ UNCHANGED <<aclFile, aclConfig, staffs, userCache, aclOut, toolVars, chatVars,
                 apiVars, concVars>>

InitAclRace ==
  /\ aclFile = NoFile
  /\ aclConfig = loadAclConfig(aclFile)
  /\ staffs = ScenarioStaffs
  /\ userCache = EmptyCache
  /\ ticks = 0
  /\ aclOut = NoOut
  /\ dbRows = InitRows
  /\ poolOut = 0
  /\ call = IdleCall
  /\ SseUnused
  /\ ChatUnused
  /\ ApiUnused
  /\ chatB = IdleChat
  /\ writes = << >>
  /\ lookups = [k \in Lookers |-> IdleLookup]
  /\ staffChangedAt = 0

NextAclRace ==
  \/ \E k \in Lookers : LookupStart(k)
  \/ \E k \in Lookers, db \in {"ok", "fail"} : LookupQuery(k, db)
  \/ \E k \in Lookers : LookupSet(k)
  \/ \E row \in RaceRows : StaffChange(row)
  \/ RaceTick
  \/ clearAclCache

SpecAclRace == InitAclRace /\ [][NextAclRace]_vars

(***************************************************************************)
(* SpecChatSeq: chat invocations on a session, one after the other         *)
(***************************************************************************)
\* chat invocations SpecChatSeq starts on the session
MaxChats == 2

\* the answer with neither text nor tool_use
SilentResponse == [text |-> FALSE, tools |-> 0, stop |-> "end_turn"]

\* the answers the LLM gives in SpecChatSeq
SeqResponses == {CanonicalResponse, FinalResponse, SilentResponse}

\* the user messages stored for the session
UserMessages == {i \in 1..Len(messages) : messages[i].role = "user"}

\* server.ts:183-188 the response of the chat request is sent (200, or 500
\* when chat rejected); the next request can be made
Respond ==
  /\ chat.pc \in {"done", "failed"}
  /\ chat' = [IdleChat EXCEPT !.nextId = chat.nextId]
  /\ api' = Response(PostMessageRoute, api.token, chat.http, api.user, TRUE)
  /\ UNCHANGED <<aclVars, toolVars, authSessions, session, messages, otherSessions,
                 logins, tokenCtr, loggedOut, concVars>>

\* the steps of a chat invocation whose tool calls go through
SeqChatSteps ==
  \/ AppendUser
  \/ LoadHistory
  \/ \E r \in SeqResponses : LlmCall(r)
  \/ LlmError
  \/ LoopExit
  \/ PersistText
  \/ PersistToolUse
  \/ StopCheck
  \/ BridgeCall
  \/ AclGate("ok")
  \/ Dispatch
  \/ Body("ok")
  \/ ToolReturn
  \/ PersistResult
  \/ Reload
  \/ TitleAndReturn

InitChatSeq ==
  /\ aclFile = NoFile
  /\ aclConfig = loadAclConfig(aclFile)
  /\ staffs = ScenarioStaffs
  /\ userCache = EmptyCache
  /\ ticks = 0
  /\ aclOut = NoOut
  /\ dbRows = InitRows
  /\ poolOut = 0
  /\ call = IdleCall
  /\ sseOpen = [t \in Transports |->
                 [open |-> t = BridgeTransport, header |-> Undefined]]
  /\ sessionEmails = << >>
  /\ envEmail = "b@x"
  /\ req = NoReq
  /\ authSessions = TwoUsers
  /\ messages = << >>
  /\ session = [owner |-> "a@x", title |-> NewTitle, updatedAt |-> 0]
  /\ chat = IdleChat
  /\ ApiUnused
  /\ ConcUnused

NextChatSeq ==
  \/ /\ Cardinality(UserMessages) < MaxChats
     /\ \E len \in MessageLengths : PostMessage("ta", len)
  \/ SeqChatSteps
  \/ Respond

SpecChatSeq == InitChatSeq /\ [][NextChatSeq]_vars

(***************************************************************************)
(* SpecChatPair: two chat invocations on one session at the same time      *)
(***************************************************************************)
\* the first tool_use id of the second invocation (the ids the LLM makes up
\* are distinct)
SecondIds == 101

\* the answers the LLM gives in SpecChatPair: one tool round at most
PairResponses(round) ==
  IF round = 0 THEN {CanonicalResponse, FinalResponse} ELSE {FinalResponse}

\* the event loop goes on with the other invocation (each step of chat ends
\* at an await)
Switch ==
  /\ chat' = chatB
  /\ chatB' = chat
  /\ UNCHANGED <<aclVars, toolVars, apiVars, authSessions, session, messages,
                 writes, lookups, staffChangedAt>>

\* the steps of the invocation that runs
PairChatSteps ==
  \/ AppendUser
  \/ LoadHistory
  \/ \E r \in PairResponses(chat.round) : LlmCall(r)
  \/ PersistText
  \/ PersistToolUse
  \/ StopCheck
  \/ BridgeCall
  \/ AclGate("ok")
  \/ Dispatch
  \/ Body("ok")
  \/ ToolReturn
  \/ PersistResult
  \/ Reload
  \/ TitleAndReturn

InitChatPair ==
  /\ aclFile = NoFile
  /\ aclConfig = loadAclConfig(aclFile)
  /\ staffs = ScenarioStaffs
  /\ userCache = EmptyCache
  /\ ticks = 0
  /\ aclOut = NoOut
  /\ dbRows = InitRows
  /\ poolOut = 0
  /\ call = IdleCall
  /\ sseOpen = [t \in Transports |->
                 [open |-> t = BridgeTransport, header |-> Undefined]]
  /\ sessionEmails = << >>
  /\ envEmail = "b@x"
  /\ req = NoReq
  /\ authSessions = TwoUsers
  /\ messages = << >>
  /\ session = [owner |-> "a@x", title |-> NewTitle, updatedAt |-> 0]
  /\ chat = IdleChat
  /\ ApiUnused
  /\ chatB = [IdleChat EXCEPT !.nextId = SecondIds]
  /\ writes = << >>
  /\ lookups = << >>
  /\ staffChangedAt = 0

NextChatPair ==
  \/ \E len \in MessageLengths : PostMessage("ta", len)
  \/ PairChatSteps
  \/ Switch

SpecChatPair == InitChatPair /\ [][NextChatPair]_vars

(***************************************************************************)
(* SpecTouch: appendMessage and updateSessionTitle calls of two callers    *)
(***************************************************************************)
\* messages SpecTouch appends to the session
MaxAppends == 3

\* the callers of db.ts that run at a time (two chat invocations)
Writers == {"W1", "W2"}

\* the caller has no sessions.updateOne under way
IdleWrite == [pc |-> "idle", op |-> "none", title |-> NewTitle, at |-> 0]

\* db.ts:121-131 appendMessage: the message is inserted, then the clock is
\* read for updatedAt and sessions.updateOne is sent
AppendIssue(w, role) ==
  /\ writes[w].pc = "idle"
  /\ Len(messages) < MaxAppends
  /\ messages' = Append(messages, StoredMessage(role, "text", 0))
  /\ writes' = [writes EXCEPT ![w] = [IdleWrite EXCEPT !.pc = "sent", !.op = "touch",
                                                       !.at = now]]
  /\ UNCHANGED <<aclVars, toolVars, apiVars, authSessions, session, chat, chatB,
                 lookups, staffChangedAt>>

\* db.ts:109-112 updateSessionTitle: the clock is read for updatedAt and
\* sessions.updateOne is sent
TitleIssue(w, len) ==
  /\ writes[w].pc = "idle"
  /\ writes' = [writes EXCEPT ![w] = [pc |-> "sent", op |-> "title",
                                      title |-> titleSnippet(len), at |-> now]]
  /\ UNCHANGED <<aclVars, toolVars, apiVars, chatVars, chatB, lookups, staffChangedAt>>

\* the document store applies the updateOne: $set of updatedAt, and of the
\* title for updateSessionTitle
WriteApplied(w) ==
  /\ writes[w].pc = "sent"
  /\ session' = IF writes[w].op = "title"
                  THEN [session EXCEPT !.title = writes[w].title,
                                       !.updatedAt = writes[w].at]
                  ELSE [session EXCEPT !.updatedAt = writes[w].at]
  /\ writes' = [writes EXCEPT ![w] = IdleWrite]
  /\ UNCHANGED <<aclVars, toolVars, apiVars, authSessions, messages, chat, chatB,
                 lookups, staffChangedAt>>

InitTouch ==
  /\ aclFile = NoFile
  /\ aclConfig = loadAclConfig(aclFile)
  /\ staffs = ScenarioStaffs
  /\ userCache = EmptyCache
  /\ ticks = 0
  /\ aclOut = NoOut
  /\ dbRows = InitRows
  /\ poolOut = 0
  /\ call = IdleCall
  /\ SseUnused
  /\ authSessions = TwoUsers
  /\ messages = << >>
  /\ session = [owner |-> "a@x", title |-> NewTitle, updatedAt |-> 0]
  /\ chat = IdleChat
  /\ ApiUnused
  /\ chatB = IdleChat
  /\ writes = [w \in Writers |-> IdleWrite]
  /\ lookups = << >>
  /\ staffChangedAt = 0

NextTouch ==
  \/ \E w \in Writers, role \in {"user", "assistant"} : AppendIssue(w, role)
  \/ \E w \in Writers, len \in MessageLengths : TitleIssue(w, len)
  \/ \E w \in Writers : WriteApplied(w)
  \/ Tick

SpecTouch == InitTouch /\ [][NextTouch]_vars

(***************************************************************************)
(* SpecChatDelete: the owner deletes the session while a chat runs         *)
(***************************************************************************)
NextChatDelete ==
  \/ \E len \in MessageLengths : PostMessage("ta", len)
  \/ PairChatSteps
  \/ DeleteSessionRoute("ta", MainSession)

SpecChatDelete == InitChatSeq /\ [][NextChatDelete]_vars

(***************************************************************************)
(* SpecAuthLife: the life of a token: logins and logouts of two users,     *)
(* staff records deactivated or removed, time passing                      *)
(***************************************************************************)
\* the profiles posted: a@x under two names, and b@x
LifeBodies ==
  {[kind |-> "profile", email |-> f[1], name |-> f[2], picture |-> f[3]] :
     f \in {<<"a@x", "n1", "p1">>, <<"a@x", "n2", "">>, <<"b@x", "n1", "p1">>}}

\* the staff records that change
LifeEmails == {"a@x", "b@x"}

\* staffs row updated to active = false by the back office
Deactivated(row) == [row EXCEPT !.active = "false"]

\* the staff record of an email is deactivated, or removed, in Postgres
StaffLeaves(email, removed) ==
  /\ staffs[email].found
  /\ removed \/ staffs[email].active = "true"
  /\ staffs' = [staffs EXCEPT ![email] =
                  IF removed THEN NoRow ELSE Deactivated(staffs[email])]
  /\ UNCHANGED <<concVars, aclFile, aclConfig, userCache, ticks, aclOut, toolVars,
                 chatVars, apiVars>>

InitAuthLife ==
  /\ aclFile = NoFile
  /\ aclConfig = loadAclConfig(aclFile)
  /\ staffs = ScenarioStaffs
  /\ userCache = EmptyCache
  /\ ticks = 0
  /\ aclOut = NoOut
  /\ dbRows = InitRows
  /\ poolOut = 0
  /\ call = IdleCall
  /\ SseUnused
  /\ authSessions = {}
  /\ session = [owner |-> Undefined, title |-> NewTitle, updatedAt |-> 0]
  /\ messages = << >>
  /\ chat = IdleChat
  /\ otherSessions = {}
  /\ logins = [p \in Logins |-> IdleLogin]
  /\ tokenCtr = 0
  /\ loggedOut = {}
  /\ api = NoApi
  /\ ConcUnused

NextAuthLife ==
  \/ \E body \in LifeBodies : LoginRequest("L1", body)
  \/ LoginSteps
  \/ \E t \in KnownTokens : Logout(t)
  \/ \E e \in LifeEmails, removed \in BOOLEAN : StaffLeaves(e, removed)
  \/ Tick

SpecAuthLife == InitAuthLife /\ [][NextAuthLife]_vars

(***************************************************************************)
(* Properties of the access decisions (SpecAcl)                            *)
(***************************************************************************)
\* the branch of the documented decision order that applies, given the
\* staff record `u` the lookup serves
ExpectedBranch(t, e, u) ==
  CASE t \in aclConfig.public_tools -> <<TRUE, "Public tool">>
    [] t \notin aclConfig.public_tools /\ e \in {Undefined, ""} ->
         <<FALSE, "Authentication required">>
    [] t \notin aclConfig.public_tools /\ e \notin {Undefined, ""} /\ ~u.found ->
         <<FALSE, "User not found: ">>
    [] t \notin aclConfig.public_tools /\ e \notin {Undefined, ""} /\ u.found
         /\ ~u.active -> <<FALSE, "User account is deactivated: ">>
    [] OTHER ->
         IF \E a \in u.acls : a \in aclConfig.superuser_acls
           THEN <<TRUE, "Superuser access">>
         ELSE IF t \in DOMAIN aclConfig.tool_acls
           THEN IF \E a \in u.acls : a \in aclConfig.tool_acls[t]
                  THEN <<TRUE, "ACL matched">>
                  ELSE <<FALSE, "Access denied: tool ">>
         ELSE IF aclConfig.default_policy = "open"
           THEN <<TRUE, "Default policy: open">>
           ELSE <<FALSE, "Access denied: tool ">>

\* C4: in every state, for every tool name and caller email, checkToolAccess
\* decides by the fixed order public -> no email -> not found -> inactive ->
\* superuser -> ACL map -> default policy: its verdict and the branch its
\* reason names are those of the first rule of that order that applies.
C4_DecisionOrder ==
  \A t \in ToolNames, e \in EmailInputs, db \in {"ok", "fail"} :
    LET c == CheckNow(t, e, db)
        u == Lookup(e, db).user
        x == ExpectedBranch(t, e, u)
    IN /\ ~c.threw
       /\ c.allowed = x[1]
       /\ c.reason[1] = x[2]

\* C4 witness: a check has run and cached an inactive staff record that holds
\* a superuser ACL, and the call was denied
C4_Witness ==
  /\ aclOut.kind = "check" /\ ~aclOut.allowed /\ ~aclOut.threw
  /\ userCache["a@x"].has /\ ~userCache["a@x"].active
  /\ userCache["a@x"].acls \cap aclConfig.superuser_acls # {}

\* C5: in every state (config, staff store, cache, clock), for every caller
\* email and every tool of the catalog, the filtered listing contains the tool
\* exactly when checkToolAccess allows it.
C5_FilterMatchesCheck ==
  \A e \in EmailInputs, db \in DbOutcomes, t \in toolDefinitions :
    LET f == FilterNow(e, db)
        c == CheckNow(t, e, db)
    IN (~f.threw /\ ~c.threw) => ((t \in f.tools) <=> c.allowed)

\* C5 witness: a listing was filtered tool by tool (neither empty, nor the
\* public tools alone, nor the whole catalog)
C5_Witness ==
  /\ aclOut.kind = "filter" /\ ~aclOut.threw
  /\ aclOut.tools \notin {{}, toolDefinitions, aclConfig.public_tools}

C6_QueryIsReadOnly ==
  (call.pc = "done" /\ call.name = "query" /\ ~call.denied) =>
    /\ dbRows = call.rowsBefore
    /\ (\E i \in 1..Len(call.args.sql) : Mutating(call.args.sql[i]))
         => call.result.isError

\* the connection operations of one executeReadOnlyQuery, in order; `!`
\* marks the operation that threw
ErqSuccess == <<"connect", "BEGIN", "stmt", "COMMIT", "release">>

ErqFailures ==
  {<<"connect!">>} \cup
  { <<"connect">> \o pre \o <<rb, "release">> :
      pre \in {<<"BEGIN!">>, <<"BEGIN", "stmt!">>, <<"BEGIN", "stmt", "COMMIT!">>},
      rb \in {"ROLLBACK", "ROLLBACK!"} }

IsPrefix(a, b) == Len(a) <= Len(b) /\ a = SubSeq(b, 1, Len(a))

\* C7: the connection operations of an invocation of executeReadOnlyQuery are
\* always a prefix of acquire, BEGIN, statement, COMMIT, release, or of that
\* order cut at the failing operation and followed by ROLLBACK and one
\* release; a failed invocation ends in an error result; and no connection
\* is checked out once the invocation has ended.
C7_ReadOnlyDiscipline ==
  /\ \E full \in {ErqSuccess} \cup ErqFailures : IsPrefix(call.trace, full)
  /\ call.pc \in {"idle", "done"} => (poolOut = 0 /\ ~call.conn)
  /\ (call.pc = "done" /\ call.trace # << >>) =>
       /\ call.trace \in {ErqSuccess} \cup ErqFailures
       /\ call.result.isError <=> call.trace \in ErqFailures

\* C7 witness: COMMIT failed, ROLLBACK failed too, the connection was released
C7_Witness ==
  /\ call.pc = "done"
  /\ call.trace = <<"connect", "BEGIN", "stmt", "COMMIT!", "ROLLBACK!", "release">>
  /\ call.result.isError /\ poolOut = 0

\* C8: every invocation of handleToolCall ends with a result object, and
\* every outcome that is not a success carries isError with a message.
C8_AlwaysAResult ==
  call.pc = "done" =>
    /\ call.result.text # << >>
    /\ call.nonSuccess => call.result.isError

(***************************************************************************)
(* Properties of the SSE server (SpecSse)                                  *)
(***************************************************************************)
\* C1: every list_tools or call_tool request received on session S resolves
\* the caller email from the request meta, else from the X-User-Email header
\* S itself was opened with, else from the environment; never from the header
\* of another session.
C1_OwnSessionEmail ==
  req.kind # "none" =>
    req.userEmail =
      IF req.meta # Undefined /\ Trim(req.meta) # "" THEN Trim(req.meta)
      ELSE IF req.header \notin {Undefined, ""} THEN req.header
      ELSE IF envEmail \notin {Undefined, ""} THEN Trim(envEmail)
      ELSE Undefined

(***************************************************************************)
(* Properties of the orchestrator (SpecChat)                               *)
(***************************************************************************)
\* C2: every tool call the orchestrator issues for a message of the
\* authenticated user U is ACL-evaluated against U's email: the email
\* handleToolCall checks access with is the email of the auth session that
\* passed the HTTP gate.
C2_ToolCallsCarryTheUser ==
  chat.pc = "wait_tool" /\ call.pc # "idle" => call.userEmail = chat.user

\* C9: one chat invocation makes at most MAX_TOOL_ROUNDS LLM calls, and once
\* started it returns or fails, whatever the LLM answers.
C9_TerminatesWithinCap ==
  /\ [](chat.llmCalls <= MAX_TOOL_ROUNDS)
  /\ (chat.pc = "append_user" ~> chat.pc \in {"done", "failed"})

\* a chat whose every answer asked for a tool has used the 20 calls and returned
C9_Witness ==
  chat.pc = "done" /\ chat.llmCalls = MAX_TOOL_ROUNDS /\ chat.round = MAX_TOOL_ROUNDS

\* the toolUseIds of the messages of a role, in stored order
IdsOfRole(role) ==
  LET F[i \in 0..Len(messages)] ==
        IF i = 0 THEN << >>
        ELSE IF messages[i].role = role THEN Append(F[i - 1], messages[i].toolUseId)
        ELSE F[i - 1]
  IN F[Len(messages)]

\* C10: whenever no chat invocation is in progress, the tool_use messages and
\* the tool_result messages of the session carry the same toolUseIds in the
\* same order.
C10_ToolUseResultPaired ==
  chat.pc \in {"idle", "done", "failed"} => IdsOfRole("tool_use") = IdsOfRole("tool_result")

\* the tool phase of a round: tool_use blocks 1..i-1 have their results
InToolPhase == chat.pc \in {"call_tool", "wait_tool", "persist_result", "reload"}

\* the tool_use blocks of the round whose results are persisted
ResultsPersisted == IF chat.pc = "reload" THEN chat.resp.tools ELSE chat.i - 1

\* C11: a failing callTool does not fail chat. In the tool phase of a round
\* the transcript ends with the tool_results of the tool_use blocks handled so
\* far, in the order of the blocks and with their toolUseIds, the content
\* being 'Error: <message>' where callTool failed; a round in which callTool
\* failed is not where chat fails; and after the last result the loop goes on
\* to the next round.
C11_ToolFailureIsAResult ==
  /\ [](InToolPhase =>
          LET done == ResultsPersisted
              base == Len(messages) - done
          IN /\ base >= 0
             /\ \A k \in 1..done :
                  /\ messages[base + k].role = "tool_result"
                  /\ messages[base + k].toolUseId = chat.ids[k]
                  /\ k \in chat.threw => messages[base + k].content = "Error: ")
  /\ [](chat.threw # {} => InToolPhase)
  /\ [][chat.pc = "reload" /\ chat' # chat =>
          chat'.pc = "llm" /\ chat'.round = chat.round + 1]_vars

\* a round of two tool_use blocks whose first callTool failed and whose second
\* went through has both results persisted
C11_Witness ==
  /\ chat.pc = "reload" /\ chat.resp.tools = 2 /\ chat.threw = {1}
  /\ messages[Len(messages) - 1] = StoredMessage("tool_result", "Error: ", chat.ids[1])
  /\ messages[Len(messages)] = StoredMessage("tool_result", "json", chat.ids[2])

\* the LLM produced text in a round of this invocation
ProducedText ==
  \E k \in (chat.dbLen + 1)..Len(messages) : messages[k].role = "assistant"

\* C12: when the loop cap is reached chat returns normally and its
\* assistantText is non-empty whenever the LLM produced text in the rounds
\* that ran.
C12_CapReturnsAccumulatedText ==
  chat.pc = "done" /\ chat.round = MAX_TOOL_ROUNDS =>
    chat.http = 200 /\ (ProducedText => chat.finalText)

(***************************************************************************)
(* Properties of login and logout (SpecAuth)                               *)
(***************************************************************************)
\* the staff record of an email allows a login
ActiveStaff(email) == staffs[email].found /\ staffs[email].active = "true"

\* the step answers the login of slot p
LoginAnswered(p) == logins[p].pc # "idle" /\ logins'[p].pc = "idle"

C16_RepeatLoginKeepsToken ==
  /\ [][\A p \in Logins :
          logins[p].pc = "update" /\ LoginAnswered(p)
            /\ logins[p].existing.token \notin loggedOut
          => LET old == FindByEmail(logins[p].email)
                 new == CHOOSE s \in authSessions' : s.email = logins[p].email
             IN /\ old.found
                /\ api'.status = 200 /\ api'.token = old.token
                /\ \E s \in authSessions' : s.email = logins[p].email
                /\ new.token = old.token /\ new.userId = old.userId
                /\ new.createdAt = old.createdAt
                /\ {s \in authSessions' : s.email # logins[p].email}
                     = {s \in authSessions : s.email # logins[p].email}]_vars
  /\ [](api.route = "POST /api/auth/google" /\ api.status = 200
          /\ FindByEmail(api.user).found
          => api.token = FindByEmail(api.user).token)

\* a@x logged in as n1/p1 and again as n2 without picture: same token, the
\* name replaced, the picture kept
C16_Witness ==
  /\ api.route = "POST /api/auth/google" /\ api.status = 200 /\ api.token = "t1"
  /\ \E s \in authSessions :
       s.email = "a@x" /\ s.token = "t1" /\ s.name = "n2" /\ s.picture = "p1"

\* C18: a token whose logout completed is of no auth session in any later
\* state, a gated request carrying it is answered 401, and a login that
\* starts after the logout returns another token.
C18_LogoutIsFinal ==
  /\ [](\A t \in loggedOut : ~validateSession(t).ok)
  /\ [][api' # api /\ api'.route = "GET /api/sessions" /\ api'.token \in loggedOut
          => api'.status = 401 /\ ~api'.handled]_vars
  /\ [][\A p \in Logins :
          LoginAnswered(p) /\ api'.status = 200
          => api'.token \notin logins[p].loggedOutAtStart]_vars

\* a@x logged out of t1 and logged in again: the new session has token t2,
\* and a request with t1 got 401
C18_Witness ==
  /\ "t1" \in loggedOut
  /\ \E s \in authSessions : s.email = "a@x" /\ s.token = "t2"
  /\ api.route = "GET /api/sessions" /\ api.token = "t1" /\ api.status = 401

(***************************************************************************)
(* Properties of concurrent logins (SpecAuthRace)                          *)
(***************************************************************************)
\* auth_sessions holds at most one session per email and per token
UniqueSessions ==
  \A s, t \in authSessions : (s.email = t.email \/ s.token = t.token) => s = t

\* the login of slot p returns the token of the session stored for its email
ReturnsStoredToken(p) ==
  \E s \in authSessions' : s.email = logins[p].email /\ s.token = api'.token

\* C17 as stated: auth_sessions holds at most one session per email and per
\* token, and every login that returns successfully returns the token of the
\* session stored for its email.
C17_AsStated ==
  /\ []UniqueSessions
  /\ [][\A p \in Logins :
          LoginAnswered(p) /\ api'.status = 200 => ReturnsStoredToken(p)]_vars

\* C17, amended: auth_sessions holds at most one session per email and per
\* token, also when two logins of an email both find no session before either
\* inserts; and every login that returns successfully returns the token of
\* the session stored for its email, unless the session it found was logged
\* out while the login was running.
C17_UniqueAndStoredUnlessLoggedOut ==
  /\ []UniqueSessions
  /\ [][\A p \in Logins :
          LoginAnswered(p) /\ api'.status = 200
            /\ (logins[p].pc = "update" => logins[p].existing.token \notin loggedOut)
          => ReturnsStoredToken(p)]_vars

\* both logins found no session and drew a token; the first insert stored t1,
\* the second was rejected by the unique index
C17_Witness ==
  /\ tokenCtr = 2 /\ loggedOut = {}
  /\ api.route = "POST /api/auth/google" /\ api.status = 400
  /\ {s.token : s \in {s \in authSessions : s.email = "a@x"}} = {"t1"}

(***************************************************************************)
(* Properties of the gated routes (SpecRoutes)                             *)
(***************************************************************************)
\* the routes behind authMiddleware
GatedRoutes ==
  {"POST /api/sessions", "GET /api/sessions", "GET /api/sessions/:id",
   "DELETE /api/sessions/:id", PostMessageRoute}

\* the bearer token is that of a stored auth session
HoldsSession(token) ==
  token # Undefined /\ \E s \in authSessions : s.token = token

\* the email of the auth session of the token
EmailOfToken(token) == (CHOOSE s \in authSessions : s.token = token).email

\* the userId of the stored conversation session id (Undefined: not stored)
OwnerOf(id) ==
  IF id = MainSession THEN session.owner
  ELSE IF \E s \in otherSessions : s.sessionId = id
    THEN (CHOOSE s \in otherSessions : s.sessionId = id).userId
  ELSE Undefined

\* no conversation session or message changes and no chat starts
StoresUntouched ==
  /\ UNCHANGED <<session, messages, otherSessions, call>>
  /\ chat'.pc = chat.pc /\ chat'.llmCalls = chat.llmCalls
  /\ chat'.toolCalls = chat.toolCalls

\* C13: on every route other than /api/auth/* and /api/health, a request
\* whose bearer token is missing or matches no stored auth session is answered
\* 401 and its handler does not run (no session or message is read, created,
\* changed or deleted); when the token matches, the user of that auth session
\* is attached to the request and the handler runs.
C13_GateBeforeHandlers ==
  [][api'.route \in GatedRoutes =>
       IF HoldsSession(api'.token)
         THEN api'.handled /\ api'.status # 401
              /\ api'.user = EmailOfToken(api'.token)
         ELSE api'.status = 401 /\ ~api'.handled /\ api'.user = Undefined
              /\ StoresUntouched]_vars

\* a request with the token of a logged-out session was turned away on a
\* gated route
C13_Witness ==
  /\ api.route = "DELETE /api/sessions/:id" /\ api.token = "tb"
  /\ api.status = 401 /\ ~api.handled
  /\ "tb" \in loggedOut /\ session.owner = "a@x"

\* C14: GET /api/auth/me with the bearer token of a stored auth session
\* returns the user of that session.
C14_MeReturnsUser ==
  [][api'.route = "GET /api/auth/me" /\ HoldsSession(api'.token) =>
       api'.status = 200 /\ api'.user = EmailOfToken(api'.token)]_vars

\* a user other than the owner of the stored session id asks for it
AsksAsStranger(token, id) ==
  /\ authMiddleware(token).ok
  /\ OwnerOf(id) \notin {Undefined, authMiddleware(token).userId}

C20_OnlyTheOwnerDeletes ==
  [][\A tok \in RouteTokens, id \in SessionIds :
       AsksAsStranger(tok, id) /\ DeleteSessionRoute(tok, id)
         => UNCHANGED <<session, messages, otherSessions>>]_vars

(***************************************************************************)
(* Properties of the staff lookup and its cache (SpecAcl)                  *)
(***************************************************************************)
\* the staff store with the record of the email removed
WithoutRecord(email) == [staffs EXCEPT ![NormalizeEmail(email)] = NoRow]

\* C24: when the staff query fails, what checkToolAccess sees and answers
\* differs from what it sees and answers for an email that has no staff
\* record: a store failure is never reported as 'User not found'.
C24_FailureIsNotNotFound ==
  \A t \in AclProbeTools, e \in AclProbeEmails :
    (NeedsLookup(aclConfig, t, e) /\ ~CacheHit(userCache, e, now)) =>
      /\ resolveUserAcls(userCache, staffs, now, e, FALSE).user
           # resolveUserAcls(userCache, WithoutRecord(e), now, e, TRUE).user
      /\ CheckNow(t, e, "fail").reason # <<"User not found: ", e>>

\* the cache entry a lookup at time t makes of the staff row of n
EntryOfRow(n, t) ==
  [has |-> TRUE,
   acls |-> IF staffs[n].acl_null THEN {} ELSE staffs[n].acl_array,
   active |-> staffs[n].active = "true",
   fetched_at |-> t]

\* C25: the cache holds an entry for an email only if a staff lookup found a
\* record for it; a lookup that finds no record or fails adds and changes no
\* entry, so the next lookup for that email queries the store again; the
\* entries are keyed by the lower-cased, trimmed email.
C25_CacheHoldsOnlyFoundRecords ==
  /\ [](\A n \in NormEmails :
          /\ userCache[n].has => staffs[n].found
          /\ ~staffs[n].found => ~CacheHit(userCache, n, now))
  /\ [][\A n \in NormEmails :
          userCache'[n] # userCache[n] =>
            \/ userCache'[n] = NoEntry
            \/ staffs[n].found /\ userCache'[n] = EntryOfRow(n, now)]_vars

\* the record of a@x was cached by a lookup after the first entry expired,
\* no other entry exists, and the last check was denied
C25_Witness ==
  /\ userCache["a@x"].has /\ userCache["a@x"].fetched_at = TickMs
  /\ \A n \in NormEmails \ {"a@x"} : userCache[n] = NoEntry
  /\ aclOut.kind = "check" /\ ~aclOut.allowed /\ ~aclOut.threw

\* C27: when no default_policy is configured (the field is absent or there
\* is no ACL config file), a tool that is neither public nor listed in
\* tool_acls is denied to every user who holds no superuser ACL.
C27_DefaultPolicyIsDeny ==
  \A t \in AclProbeTools, e \in AclProbeEmails :
    ( /\ aclFile.default_policy = Undefined
      /\ t \notin aclConfig.public_tools
      /\ t \notin DOMAIN aclConfig.tool_acls
      /\ Truthy(e)
      /\ Lookup(e, "ok").user.acls \cap aclConfig.superuser_acls = {} )
    => ~CheckNow(t, e, "ok").allowed

(***************************************************************************)
(* Properties of lookups in flight (SpecAclRace)                           *)
(***************************************************************************)
\* the caller's lookup has just returned a staff record to checkToolAccess
Decides(k) ==
  /\ lookups'[k].pc = "decided" /\ lookups'[k] # lookups[k]
  /\ ~lookups'[k].failed

\* C26: a decision asked for at least CACHE_TTL_MS after the last change of
\* the staff record uses the record as stored, also when lookups were in
\* flight at the time of the change; and right after clearAclCache no entry
\* answers a lookup.
C26_StalenessBoundedByTtl ==
  /\ [][\A k \in Lookers :
          Decides(k) /\ lookups'[k].since - staffChangedAt >= CACHE_TTL_MS
            => lookups'[k].user = UserOfRow(staffs[RaceEmail])]_vars
  /\ [][userCache' = EmptyCache /\ userCache # EmptyCache
          => \A e \in NormEmails : ~CacheHit(userCache', e, raceNow)]_vars

(***************************************************************************)
(* Properties of the session title (SpecChat)                              *)
(***************************************************************************)
\* C23: after a chat invocation returns, the title of a session that held no
\* message before it is the user text when that has at most 60 characters,
\* else its first 57 characters followed by '...' (never more than 60
\* characters); a session that already held messages keeps its title.
C23_TitleOfTheFirstMessage ==
  /\ [](chat.pc = "done" /\ chat.held = 0 =>
          /\ session.title.custom /\ session.title.len <= 60
          /\ IF chat.userLen <= 60
               THEN session.title.len = chat.userLen /\ ~session.title.ellipsis
               ELSE session.title.len = 57 + 3 /\ session.title.ellipsis)
  /\ [][chat'.pc # "idle" /\ chat'.held > 0 => session'.title = session.title]_vars

\* a chat on a new session returned after tool rounds; its user text of 61
\* characters was cut
C23_Witness ==
  /\ chat.pc = "done" /\ chat.held = 0 /\ chat.userLen = 61 /\ chat.toolCalls > 0
  /\ session.title.ellipsis

(***************************************************************************)
(* Properties of the translated transcript (SpecChatSeq)                   *)
(***************************************************************************)
\* the turns start with a user turn, alternate, and none is empty
Alternates(claude) ==
  /\ claude # << >> => claude[1].role = "user"
  /\ \A i \in 1..Len(claude) - 1 : claude[i].role # claude[i + 1].role
  /\ \A i \in 1..Len(claude) : claude[i].content # << >>

\* C30: for chat invocations run one at a time on a session, also after
\* invocations that failed on an LLM error and rounds in which the LLM gave
\* neither text nor tool_use, the message list built for the next LLM call
\* starts with a user turn, strictly alternates user and assistant turns and
\* has no empty turn.
C30_TurnsAlternate ==
  chat.pc = "llm" /\ chat.round < MAX_TOOL_ROUNDS
    => Alternates(dbMessagesToClaudeMessages(messages))

(***************************************************************************)
(* Properties of concurrent chat invocations (SpecChatPair)                *)
(***************************************************************************)
\* the ids of the blocks of a type in a turn
BlockIds(turn, type) ==
  {turn.content[j].id : j \in {j \in 1..Len(turn.content) : turn.content[j].type = type}}

\* every assistant turn with tool_use blocks is followed at once by a user
\* turn that holds the tool_result of each of them
ToolUsesAnswered(claude) ==
  \A i \in 1..Len(claude) :
    (claude[i].role = "assistant" /\ BlockIds(claude[i], "tool_use") # {}) =>
      /\ i < Len(claude)
      /\ claude[i + 1].role = "user"
      /\ BlockIds(claude[i], "tool_use") \subseteq BlockIds(claude[i + 1], "tool_result")

\* the invocation that runs has just loaded the transcript for its LLM call
\* (part_002:289-290, 384-385)
LoadsTranscript ==
  /\ chat.pc \in {"load", "reload"} /\ chat'.pc = "llm"
  /\ chatB' = chatB

\* C21: with two chat invocations running on the same session, in every
\* interleaving of their appends, the transcript an invocation translates for
\* the LLM is well formed: every assistant turn with tool_use blocks is
\* followed at once by a user turn with the tool_result of each of them.
C21_ConcurrentTranscriptWellFormed ==
  [][LoadsTranscript => ToolUsesAnswered(dbMessagesToClaudeMessages(messages'))]_vars

(***************************************************************************)
(* Properties of updatedAt (SpecTouch)                                     *)
(***************************************************************************)
\* C22: across any interleaving of appendMessage and updateSessionTitle
\* operations on the session, each of which reads the clock and then writes,
\* the stored updatedAt never decreases.
C22_UpdatedAtNeverDecreases ==
  [][session'.updatedAt >= session.updatedAt]_vars

(***************************************************************************)
(* Properties of the delete cascade (SpecChatDelete)                       *)
(***************************************************************************)
\* C28: once the owner's DELETE has completed no message of the session is
\* stored in any later state, also when a chat invocation for the session was
\* in flight at the time of the delete: every stored message belongs to a
\* stored session.
C28_NoMessageWithoutSession ==
  session.owner = Undefined => messages = << >>

(***************************************************************************)
(* Properties of the life of a token (SpecAuthLife)                        *)
(***************************************************************************)
\* C29: a token returned by a successful login is accepted by validateSession
\* in every state from that login until a logout with that token: the token
\* of the last successful login is accepted unless a logout carried it, and
\* no step other than a logout with the token (not a login or logout of
\* another user, a repeat login, time passing, the staff record deactivated or
\* removed) makes an accepted token rejected.
C29_TokenLivesUntilLogout ==
  /\ [](api.route = "POST /api/auth/google" /\ api.status = 200
          /\ api.token \notin loggedOut
        => validateSession(api.token).ok)
  /\ [][\A t \in IssuedTokens :
          validateSession(t).ok /\ t \notin loggedOut'
          => (validateSession(t).ok)']_vars

\* a@x logged in (t1) and again under another name, b@x logged in (t2) and
\* out, the staff record of a@x is gone and time has passed: t1 is accepted
C29_Witness ==
  /\ validateSession("t1").ok /\ validateSession("t1").email = "a@x"
  /\ validateSession("t1").name = "n2" /\ validateSession("t1").picture = "p1"
  /\ ~staffs["a@x"].found
  /\ "t2" \in loggedOut /\ "t1" \notin loggedOut
  /\ ticks >= 1
====
